---- MODULE Spec2Model ----
(***************************************************************************)
(* Flat-level water consumption analysis (src/src/data_processor.py).     *)
(*                                                                         *)
(*   FlatDataProcessor  load_flat_data: sheet selection and extraction of  *)
(*                      the snapshot table (Flat, Amount) of a workbook.   *)
(*   FlatAnalyzer       analyze_consumption_changes: outer join of two     *)
(*                      snapshot tables, change / percentage, categories.  *)
(*                                                                         *)
(* Text is a sequence of one-character strings, so that lower(), strip()   *)
(* and substring tests are computed and not assumed.  Amounts are          *)
(* integers; a float that pandas computes by division is kept as an exact  *)
(* fraction [num, den] (den = 0 encodes inf / nan).                        *)
(***************************************************************************)
EXTENDS Integers, Sequences, FiniteSets, TLC

VARIABLES
    pc,                 \* position of the run
    df_last,            \* analyze_consumption_changes: prior snapshot table
    df_this,            \* analyze_consumption_changes: current snapshot table
    results,            \* analyze_consumption_changes: returned dictionary
    file,               \* load_flat_data: the workbook
    processing_order,   \* load_flat_data: sheets to try, in order
    next_sheet,         \* load_flat_data: index of the next sheet to try
    tried,              \* load_flat_data: sheets handed to _process_sheet
    flat_data,          \* load_flat_data: returned frame, or None
    grid,               \* one sheet read with header=None (raw)
    locator,            \* which header / column locator has run on it
    found_row,          \* the header_row it returned, or None
    found_cols,         \* the column roles it assigned, or None
    uploaded,           \* billing workflow: the files handed in
    wegot_data,         \* WeGotDataProcessor.wegot_data
    billing_template_file,      \* WeGotDataProcessor.billing_template_file
    billing_template,           \* WeGotDataProcessor.billing_template
    updated_billing_template,   \* BillingWorkflowManager.updated_billing_template
    selected,           \* month, bwssb_reading, tanker_reading of the run
    download,           \* what get_updated_billing_template_download returned
    adda_template_file, \* BillingWorkflowManager.adda_template_file
    final_allocation,   \* WeGotDataProcessor.final_allocation
    adda_template,      \* what _generate_adda_template_from_file returned
    workflow_status,    \* BillingWorkflowManager.workflow_status
    workflow_result,    \* what execute_billing_workflow returned
    objects,            \* the frames, dicts and file the references point to
    updated_ref         \* reference held by updated_billing_template

sheetVars == <<grid, locator, found_row, found_cols>>

patchVars == <<uploaded, wegot_data, billing_template_file, billing_template,
               updated_billing_template, selected, download>>

flowVars == <<adda_template_file, final_allocation, adda_template,
              workflow_status, workflow_result, objects, updated_ref>>

vars == <<pc, df_last, df_this, results, file, processing_order,
          next_sheet, tried, flat_data, sheetVars, patchVars, flowVars>>

None == [none |-> TRUE]

\* Optional[pd.DataFrame]: None, or a frame with its rows
NoFrame == [is_none |-> TRUE, rows |-> <<>>]
DataFrame(rows) == [is_none |-> FALSE, rows |-> rows]

(***************************************************************************)
(* Bounds of the model.                                                    *)
(***************************************************************************)
\* rows of one snapshot table handed to the analyzer
MaxRows == 2
\* rows of one snapshot table in the per-record (wide amount range) runs
MaxRowsWide == 1

\* ------------------------------------------------------------------------
\* Generic sequence helpers (pandas / Python built-ins)
\* ------------------------------------------------------------------------

Range(s) == {s[i] : i \in DOMAIN s}

RECURSIVE InsertAsc(_, _, _)
\* insertion step of a stable ascending sort on column col: x goes after
\* every row whose key is not greater
InsertAsc(x, sorted, col) ==
    IF sorted = <<>> THEN <<x>>
    ELSE IF Head(sorted)[col] <= x[col]
         THEN <<Head(sorted)>> \o InsertAsc(x, Tail(sorted), col)
         ELSE <<x>> \o sorted

RECURSIVE SortAsc(_, _)
\* DataFrame.sort_values(col): ascending, ties in input order
SortAsc(s, col) ==
    IF s = <<>> THEN <<>>
    ELSE InsertAsc(s[Len(s)], SortAsc(SubSeq(s, 1, Len(s) - 1), col), col)

RECURSIVE InsertDesc(_, _, _)
InsertDesc(x, sorted, col) ==
    IF sorted = <<>> THEN <<x>>
    ELSE IF Head(sorted)[col] > x[col]
         THEN <<Head(sorted)>> \o InsertDesc(x, Tail(sorted), col)
         ELSE <<x>> \o sorted

\* slip: the descending sort left out
SortDesc_Unsorted(s, col) == s

RECURSIVE SortDesc(_, _)
\* DataFrame.sort_values(col, ascending=False): descending; pandas sorts the
\* reversed column ascending and reverses the result, so ties keep input order
SortDesc(s, col) ==
    IF s = <<>> THEN <<>>
    ELSE InsertDesc(Head(s), SortDesc(Tail(s), col), col)

RECURSIVE SumCol(_, _)
\* Series.sum() of column col
SumCol(s, col) ==
    IF s = <<>> THEN 0 ELSE Head(s)[col] + SumCol(Tail(s), col)

\* ------------------------------------------------------------------------
\* Floats produced by division, kept exact: num / den with den >= 0;
\* den = 0 is what numpy yields for a zero divisor (inf, -inf or nan)
\* ------------------------------------------------------------------------

Frac(n) == [num |-> n, den |-> 1]

\* Series / Series: never raises; a zero divisor gives inf or nan
FloatDiv(a, b) ==
    IF b < 0 THEN [num |-> -a, den |-> -b] ELSE [num |-> a, den |-> b]

FracTimes(p, n) == [num |-> p.num * n, den |-> p.den]

IsFinite(p) == p.den > 0

\* p > n, p < n for an integer n (every comparison with nan is false)
FracGT(p, n) == p.num > n * p.den
FracLT(p, n) == p.num < n * p.den

\* n >= p and n <= p for an integer n (false when p is nan)
IntGE(n, p) == p.den > 0 /\ n * p.den >= p.num
IntLE(n, p) == p.den > 0 /\ n * p.den <= p.num

\* np.where(cond, x, y): both x and y are computed, cond selects
NpWhere(cond, x, y) == IF cond THEN x ELSE y

\* ------------------------------------------------------------------------
\* FlatAnalyzer
\* ------------------------------------------------------------------------

increase_threshold == 200
percentage_threshold == 25

\* identifiers of the snapshot tables, in lexicographic order
FlatNames == <<"A101", "A102", "A103">>

NaN == [isna |-> TRUE, val |-> 0]
Num(v) == [isna |-> FALSE, val |-> v]

RowsOf(df, k) == SelectSeq(df, LAMBDA r : r.Flat = k)

\* the rows pd.merge(how="outer") yields for one key: the product of the
\* left and right rows carrying it, or the rows of one side with NaN
MergeKey(k, L, R) ==
    IF L = <<>>
    THEN [i \in 1..Len(R) |->
            [Flat |-> k, Amount_last_month |-> NaN,
             Amount_this_month |-> Num(R[i].Amount)]]
    ELSE IF R = <<>>
    THEN [i \in 1..Len(L) |->
            [Flat |-> k, Amount_last_month |-> Num(L[i].Amount),
             Amount_this_month |-> NaN]]
    ELSE [i \in 1..(Len(L) * Len(R)) |->
            [Flat |-> k,
             Amount_last_month |-> Num(L[((i - 1) \div Len(R)) + 1].Amount),
             Amount_this_month |-> Num(R[((i - 1) % Len(R)) + 1].Amount)]]

RECURSIVE MergeFrom(_, _, _)
MergeFrom(i, last, this) ==
    IF i > Len(FlatNames) THEN <<>>
    ELSE MergeKey(FlatNames[i], RowsOf(last, FlatNames[i]), RowsOf(this, FlatNames[i]))
         \o MergeFrom(i + 1, last, this)

\* slip: how="inner", only the identifiers of both tables
merge_Inner(last, this) ==
    SelectSeq(MergeFrom(1, last, this),
              LAMBDA r : ~r.Amount_last_month.isna /\ ~r.Amount_this_month.isna)

\* pd.merge(df_last, df_this, on="Flat", how="outer"): keys in sorted order
merge(last, this) == MergeFrom(1, last, this)

FillCell(c) == IF c.isna THEN 0 ELSE c.val

\* merged.fillna(0)
fillna(m) ==
    [i \in 1..Len(m) |->
        [Flat |-> m[i].Flat,
         Amount_last_month |-> FillCell(m[i].Amount_last_month),
         Amount_this_month |-> FillCell(m[i].Amount_this_month)]]

\* slip: the subtraction taken the other way round
Change_Amount_Swapped(r) == r.Amount_last_month - r.Amount_this_month

Change_Amount(r) == r.Amount_this_month - r.Amount_last_month

\* slip: the division used for every row, without the np.where guard
Change_Percent_Unguarded(r) ==
    FracTimes(FloatDiv(Change_Amount(r), r.Amount_last_month), 100)

Change_Percent(r) ==
    NpWhere(r.Amount_last_month > 0,
            FracTimes(FloatDiv(Change_Amount(r), r.Amount_last_month), 100),
            NpWhere(r.Amount_this_month > 0, Frac(100), Frac(0)))

\* the merged frame with its two computed columns
WithChanges(m) ==
    [i \in 1..Len(m) |->
        [Flat |-> m[i].Flat,
         Amount_last_month |-> m[i].Amount_last_month,
         Amount_this_month |-> m[i].Amount_this_month,
         Change_Amount |-> Change_Amount(m[i]),
         Change_Percent |-> Change_Percent(m[i])]]

_calculate_metrics(merged) ==
    LET n == Len(merged)
        total_change == SumCol(merged, "Change_Amount")
        active_flats == Len(SelectSeq(merged, LAMBDA r : r.Amount_this_month > 0))
        zero_usage == Len(SelectSeq(merged, LAMBDA r : r.Amount_this_month = 0))
    IN  [total_flats |-> n,
         active_flats |-> active_flats,
         zero_usage_flats |-> zero_usage,
         total_change |-> total_change,
         avg_change |-> FloatDiv(total_change, n),
         active_percentage |->
            IF n > 0 THEN FracTimes(FloatDiv(active_flats, n), 100) ELSE Frac(0),
         zero_percentage |->
            IF n > 0 THEN FracTimes(FloatDiv(zero_usage, n), 100) ELSE Frac(0)]

\* Series.quantile(q) of column col, q = tenths / 10, linear interpolation
\* between the two closest ranks; nan for an empty column
quantile(rows, col, tenths) ==
    LET v == SortAsc(rows, col)
        n == Len(v)
        pos == (n - 1) * tenths
        lo == (pos \div 10) + 1
        hi == IF lo < n THEN lo + 1 ELSE lo
    IN  IF n = 0 THEN [num |-> 0, den |-> 0]
        ELSE [num |-> 10 * v[lo][col] + (pos % 10) * (v[hi][col] - v[lo][col]),
              den |-> 10]

\* slip: the amount threshold taken inclusively
IsMajorIncrease_Inclusive(r) ==
    /\ \/ r.Change_Amount >= increase_threshold
       \/ FracGT(r.Change_Percent, percentage_threshold)
    /\ r.Change_Amount > 0

IsMajorIncrease(r) ==
    /\ \/ r.Change_Amount > increase_threshold
       \/ FracGT(r.Change_Percent, percentage_threshold)
    /\ r.Change_Amount > 0

IsMajorDecrease(r) ==
    /\ \/ r.Change_Amount < -increase_threshold
       \/ FracLT(r.Change_Percent, -percentage_threshold)
    /\ r.Change_Amount < 0

IsZeroConsumption(r) == r.Amount_this_month = 0 /\ r.Amount_last_month > 0

\* slip: the test of the prior amount left out
IsNewConsumer_AnyActive(r) == r.Amount_this_month > 0
IsNewConsumer(r) == r.Amount_last_month = 0 /\ r.Amount_this_month > 0

\* slip: the percentile bound taken exclusively
high_consumers_Strict(merged) ==
    LET high_threshold == quantile(merged, "Amount_this_month", 9)
    IN  SortDesc(SelectSeq(merged,
                     LAMBDA r : ~IntLE(r.Amount_this_month, high_threshold)),
                 "Amount_this_month")

high_consumers(merged) ==
    LET high_threshold == quantile(merged, "Amount_this_month", 9)
    IN  SortDesc(SelectSeq(merged,
                     LAMBDA r : IntGE(r.Amount_this_month, high_threshold)),
                 "Amount_this_month")

low_consumers(merged) ==
    LET active_flats == SelectSeq(merged, LAMBDA r : r.Amount_this_month > 0)
        low_threshold == quantile(active_flats, "Amount_this_month", 1)
    IN  IF Len(active_flats) > 0
        THEN SortAsc(SelectSeq(active_flats,
                         LAMBDA r : IntLE(r.Amount_this_month, low_threshold)),
                     "Amount_this_month")
        ELSE <<>>

_categorize_flats(merged) ==
    [major_increases |-> SortDesc(SelectSeq(merged, IsMajorIncrease), "Change_Amount"),
     major_decreases |-> SortAsc(SelectSeq(merged, IsMajorDecrease), "Change_Amount"),
     zero_consumption |-> SortDesc(SelectSeq(merged, IsZeroConsumption), "Amount_last_month"),
     new_consumers |-> SortDesc(SelectSeq(merged, IsNewConsumer), "Amount_this_month"),
     high_consumers |-> high_consumers(merged),
     low_consumers |-> low_consumers(merged)]

analyze_consumption_changes(last, this) ==
    LET merged == WithChanges(fillna(merge(last, this)))
    IN  [merged_data |-> merged,
         metrics |-> _calculate_metrics(merged),
         categories |-> _categorize_flats(merged)]

\* ------------------------------------------------------------------------
\* Inputs of the analyzer: snapshot tables as load_flat_data returns them
\* (rows in sheet order; an identifier may repeat, a table may be empty)
\* ------------------------------------------------------------------------

Amounts == {0, 120, 300, 550}
\* identifiers the prior and the current workbook may carry: one shared,
\* one only in the prior, one only in the current
FlatsLast == {"A101", "A102"}
FlatsThis == {"A101", "A103"}
AmountsWide == {0, 50, 100, 150, 800, 1000, 1200, 1250}

TableRows(flats, amounts) == [Flat : flats, Amount : amounts]

Tables(flats, amounts, maxRows) ==
    UNION {[1..n -> TableRows(flats, amounts)] : n \in 0..maxRows}

\* ------------------------------------------------------------------------
\* The analysis run (analysis_tab): both tables loaded, then analyzed
\* ------------------------------------------------------------------------

PatchIdle ==
    /\ uploaded = None
    /\ wegot_data = None
    /\ billing_template_file = None
    /\ billing_template = None
    /\ updated_billing_template = None
    /\ selected = None
    /\ download = None

FlowIdle ==
    /\ adda_template_file = None
    /\ final_allocation = None
    /\ adda_template = None
    /\ workflow_status = <<>>
    /\ workflow_result = None
    /\ objects = <<>>
    /\ updated_ref = None

SheetIdle ==
    /\ grid = <<>>
    /\ locator = "none"
    /\ found_row = -1
    /\ found_cols = None

LoadIdle ==
    /\ file = None
    /\ processing_order = <<>>
    /\ next_sheet = 0
    /\ tried = <<>>
    /\ flat_data = NoFrame

InitAnalyze ==
    /\ pc = "loaded"
    /\ df_last \in Tables(FlatsLast, Amounts, MaxRows)
    /\ df_this \in Tables(FlatsThis, Amounts, MaxRows)
    /\ results = None
    /\ LoadIdle
    /\ SheetIdle
    /\ PatchIdle
    /\ FlowIdle

InitPercent ==
    /\ pc = "loaded"
    /\ df_last \in Tables(FlatsLast, AmountsWide, MaxRowsWide)
    /\ df_this \in Tables(FlatsThis, AmountsWide, MaxRowsWide)
    /\ results = None
    /\ LoadIdle
    /\ SheetIdle
    /\ PatchIdle
    /\ FlowIdle

Analyze ==
    /\ pc = "loaded"
    /\ results' = analyze_consumption_changes(df_last, df_this)
    /\ pc' = "analyzed"
    /\ UNCHANGED <<df_last, df_this, file, processing_order, next_sheet,
                   tried, flat_data>>
    /\ UNCHANGED <<sheetVars, patchVars, flowVars>>

NextAnalyze == Analyze

SpecAnalyze == InitAnalyze /\ [][NextAnalyze]_vars

SpecPercent == InitPercent /\ [][NextAnalyze]_vars

\* ------------------------------------------------------------------------
\* Text: str methods of Python / pandas on sequences of characters
\* ------------------------------------------------------------------------

UpperLetters == <<"A", "B", "C", "D", "E", "F", "G", "H", "I", "J", "K", "L", "M", "N", "O", "P", "Q", "R", "S", "T", "U", "V", "W", "X", "Y", "Z">>
LowerLetters == <<"a", "b", "c", "d", "e", "f", "g", "h", "i", "j", "k", "l", "m", "n", "o", "p", "q", "r", "s", "t", "u", "v", "w", "x", "y", "z">>
DigitChars == <<"0", "1", "2", "3", "4", "5", "6", "7", "8", "9">>
Whitespace == {" ", "\t", "\n", "\r"}

LowerChar(c) ==
    IF \E i \in DOMAIN UpperLetters : UpperLetters[i] = c
    THEN LowerLetters[CHOOSE i \in DOMAIN UpperLetters : UpperLetters[i] = c]
    ELSE c

\* str.lower()
str_lower(s) == [i \in 1..Len(s) |-> LowerChar(s[i])]

\* sub in s
str_contains(s, sub) ==
    \E i \in 0..(Len(s) - Len(sub)) : SubSeq(s, i + 1, i + Len(sub)) = sub

\* any(keyword in s for keyword in keywords)
any_keyword_in(keywords, s) ==
    \E k \in DOMAIN keywords : str_contains(s, keywords[k])

RECURSIVE str_lstrip(_)
str_lstrip(s) ==
    IF s # <<>> /\ Head(s) \in Whitespace THEN str_lstrip(Tail(s)) ELSE s

RECURSIVE str_rstrip(_)
str_rstrip(s) ==
    IF s # <<>> /\ s[Len(s)] \in Whitespace
    THEN str_rstrip(SubSeq(s, 1, Len(s) - 1)) ELSE s

\* str.strip()
str_strip(s) == str_rstrip(str_lstrip(s))

\* str.replace(old, new) for a one-character old and a new of any length
str_replace(s, old, new) ==
    IF s = <<>> THEN <<>>
    ELSE LET part(i) == IF s[i] = old THEN new ELSE <<s[i]>>
             F[i \in 0..Len(s)] == IF i = 0 THEN <<>> ELSE F[i - 1] \o part(i)
         IN  F[Len(s)]

\* sep.join(parts)
str_join(sep, parts) ==
    LET F[i \in 0..Len(parts)] ==
            IF i = 0 THEN <<>>
            ELSE IF i = 1 THEN parts[1]
            ELSE F[i - 1] \o sep \o parts[i]
    IN  F[Len(parts)]

RECURSIVE int_str(_)
\* str(n) of a non-negative int
int_str(n) ==
    IF n < 10 THEN <<DigitChars[n + 1]>>
    ELSE int_str(n \div 10) \o <<DigitChars[(n % 10) + 1]>>

IsDigits(s) == s # <<>> /\ \A i \in DOMAIN s : \E d \in DOMAIN DigitChars : DigitChars[d] = s[i]

RECURSIVE digits_int(_)
digits_int(s) ==
    IF s = <<>> THEN 0
    ELSE 10 * digits_int(SubSeq(s, 1, Len(s) - 1))
         + ((CHOOSE d \in DOMAIN DigitChars : DigitChars[d] = s[Len(s)]) - 1)

\* ------------------------------------------------------------------------
\* Cells and grids of a sheet (pd.read_excel)
\* ------------------------------------------------------------------------

Txt(s) == [t |-> "text", s |-> s, n |-> 0]
Number(n) == [t |-> "number", s |-> <<>>, n |-> n]
Empty == [t |-> "empty", s |-> <<>>, n |-> 0]

\* a column of numbers with a blank among them is read as float64
IsFloatColumn(rows, j) ==
    /\ \A i \in DOMAIN rows : rows[i][j].t # "text"
    /\ \E i \in DOMAIN rows : rows[i][j].t = "empty"
    /\ \E i \in DOMAIN rows : rows[i][j].t = "number"

\* str(value) of the cell at column j of a frame with these rows
cell_str(rows, i, j) ==
    LET c == rows[i][j]
    IN  IF c.t = "text" THEN c.s
        ELSE IF c.t = "empty" THEN <<"n", "a", "n">>
        ELSE IF IsFloatColumn(rows, j) THEN int_str(c.n) \o <<".", "0">>
        ELSE int_str(c.n)

\* pd.to_numeric(value, errors='coerce') followed by fillna(0)
to_numeric_fill0(c) ==
    IF c.t = "number" THEN c.n
    ELSE IF c.t = "text" /\ IsDigits(str_strip(c.s)) THEN digits_int(str_strip(c.s))
    ELSE 0

\* ' '.join(row.astype(str).str.lower().values) of row i of the raw grid
row_text(raw, i) ==
    str_join(<<" ">>, [j \in 1..Len(raw[i]) |-> str_lower(cell_str(raw, i, j))])

\* the column labels of pd.read_excel(header=h) (h counted from 0), cleaned
\* as the code cleans them; a blank header cell is labelled "Unnamed: j"
column_labels(raw, h) ==
    [j \in 1..Len(raw[h + 1]) |->
        LET c == raw[h + 1][j]
            label == IF c.t = "text" THEN c.s
                     ELSE IF c.t = "empty" THEN <<"U", "n", "n", "a", "m", "e", "d", ":", " ">> \o int_str(j - 1)
                     ELSE int_str(c.n)
        IN  str_replace(str_replace(str_strip(label), "\n", <<" ">>), "\r", <<" ">>)]

\* the data rows of pd.read_excel(header=h)
data_rows(raw, h) == SubSeq(raw, h + 2, Len(raw))

\* ------------------------------------------------------------------------
\* FlatDataProcessor
\* ------------------------------------------------------------------------

priority_sheets ==
    <<<<"F", "i", "n", "a", "l", " ", "a", "l", "l", "o", "c", "a", "t", "i", "o", "n", " ", "m", "o", "n", "t", "h", "l", "y">>,
      <<"f", "i", "n", "a", "l", " ", "a", "l", "l", "o", "c", "a", "t", "i", "o", "n">>,
      <<"a", "l", "l", "o", "c", "a", "t", "i", "o", "n">>>>
\* slip: the dues sheet not excluded
exclude_keywords_NoDues ==
    <<<<"w", "e", "g", "o", "t">>,
      <<"c", "h", "a", "r", "g", "e", "s">>,
      <<"c", "h", "a", "r", "t">>,
      <<"i", "n", "p", "u", "t">>>>

exclude_keywords ==
    <<<<"w", "e", "g", "o", "t">>,
      <<"c", "h", "a", "r", "g", "e", "s">>,
      <<"c", "h", "a", "r", "t">>,
      <<"i", "n", "p", "u", "t">>,
      <<"d", "u", "e", "s", "_", "t", "m", "p", "t">>>>

apartment_keywords ==
    <<<<"a", "p", "a", "r", "t", "m", "e", "n", "t">>,
      <<"a", "p", "a", "r", "t", "m">>,
      <<"f", "l", "a", "t">>>>
aggregate_markers ==
    <<<<"t", "o", "t", "a", "l">>,
      <<"s", "u", "m">>,
      <<"g", "r", "a", "n", "d">>>>
billing_amount_header_keywords ==
    <<<<"a", "m", "o", "u", "n", "t">>,
      <<"d", "u", "e">>,
      <<"b", "i", "l", "l">>>>
billing_amount_column_keywords ==
    <<<<"a", "m", "o", "u", "n", "t", "*">>,
      <<"a", "m", "o", "u", "n", "t">>,
      <<"c", "u", "r", "r", "e", "n", "t", "d", "u", "e">>,
      <<"d", "u", "e">>>>

\* Optional[int] / Optional[str] results: no row, no column
NoRow == -1
NoCol == 0

AllocationScanRows == 15
BillingScanRows == 10

Min(a, b) == IF a < b THEN a ELSE b

\* the first sheet, in workbook order, whose lower-cased name contains the
\* priority text as written in priority_sheets (inner loop with break)
FirstMatch(sheet_names, priority) ==
    LET hits == {i \in DOMAIN sheet_names :
                    str_contains(str_lower(sheet_names[i]), priority)}
    IN  IF hits = {} THEN <<>>
        ELSE <<sheet_names[CHOOSE i \in hits : \A k \in hits : i <= k]>>

IsExcluded(sheet_name) == any_keyword_in(exclude_keywords, str_lower(sheet_name))

_get_processing_order(sheet_names) ==
    LET P[k \in 0..Len(priority_sheets)] ==
            IF k = 0 THEN <<>>
            ELSE P[k - 1] \o FirstMatch(sheet_names, priority_sheets[k])
        R[i \in 0..Len(sheet_names)] ==
            IF i = 0 THEN P[Len(priority_sheets)]
            ELSE IF sheet_names[i] \notin Range(R[i - 1]) /\ ~IsExcluded(sheet_names[i])
                 THEN Append(R[i - 1], sheet_names[i])
                 ELSE R[i - 1]
    IN  R[Len(sheet_names)]

\* the first of the rows scanned that satisfies Qualifies, by index from 0
FirstRow(candidates) ==
    IF candidates = {} THEN NoRow
    ELSE CHOOSE i \in candidates : \A k \in candidates : i <= k

\* the scan run on the grid after its blank rows were dropped
NotBlankRow(row) == \E j \in DOMAIN row : row[j].t # "empty"

_find_allocation_header_SkipBlank(raw) ==
    LET kept == SelectSeq(raw, NotBlankRow)
    IN  FirstRow({i \in 0..(Min(AllocationScanRows, Len(kept)) - 1) :
            LET text == row_text(kept, i + 1)
            IN  /\ any_keyword_in(apartment_keywords, text)
                /\ str_contains(text, <<"t", "o", "t", "a", "l">>)
                /\ str_contains(text, <<"o", "w", "n", "e", "r">>)})

_find_allocation_header(raw) ==
    FirstRow({i \in 0..(Min(AllocationScanRows, Len(raw)) - 1) :
        LET text == row_text(raw, i + 1)
        IN  /\ any_keyword_in(apartment_keywords, text)
            /\ str_contains(text, <<"t", "o", "t", "a", "l">>)
            /\ str_contains(text, <<"o", "w", "n", "e", "r">>)})

\* the loop over df.columns: [apartment_col, total_col] after the first k labels
_find_allocation_columns(labels) ==
    LET F[k \in 0..Len(labels)] ==
            IF k = 0 THEN [apartment_col |-> NoCol, total_col |-> NoCol]
            ELSE LET col_lower == str_lower(labels[k])
                     prev == F[k - 1]
                 IN  IF any_keyword_in(apartment_keywords, col_lower)
                        /\ prev.apartment_col = NoCol
                     THEN [prev EXCEPT !.apartment_col = k]
                     ELSE IF str_contains(col_lower, <<"t", "o", "t", "a", "l">>) /\ prev.total_col = NoCol
                     THEN [prev EXCEPT !.total_col = k]
                     ELSE prev
    IN  F[Len(labels)]

IsAggregate(text) == any_keyword_in(aggregate_markers, str_lower(text))

\* the rows the boolean mask of _create_allocation_data keeps
KeepAllocationRow(r) ==
    /\ r.Flat # <<>>
    /\ r.Flat # <<"n", "a", "n">>
    /\ r.Flat # <<"N", "o", "n", "e">>
    /\ ~IsAggregate(r.Flat)

_create_allocation_data(rows, apartment_col, total_col) ==
    SelectSeq([i \in 1..Len(rows) |->
                  [Flat |-> str_strip(cell_str(rows, i, apartment_col)),
                   Amount |-> to_numeric_fill0(rows[i][total_col])]],
              KeepAllocationRow)

_process_allocation_sheet(raw) ==
    LET header_row == _find_allocation_header(raw)
        cols == _find_allocation_columns(column_labels(raw, header_row))
    IN  IF header_row = NoRow THEN NoFrame
        ELSE IF cols.apartment_col = NoCol \/ cols.total_col = NoCol THEN NoFrame
        ELSE DataFrame(_create_allocation_data(data_rows(raw, header_row),
                                               cols.apartment_col, cols.total_col))

_find_billing_header(raw) ==
    FirstRow({i \in 0..(Min(BillingScanRows, Len(raw)) - 1) :
        LET text == row_text(raw, i + 1)
        IN  /\ str_contains(text, <<"b", "l", "o", "c", "k">>)
            /\ str_contains(text, <<"f", "l", "a", "t">>)
            /\ any_keyword_in(billing_amount_header_keywords, text)})

_find_billing_columns(labels) ==
    LET F[k \in 0..Len(labels)] ==
            IF k = 0 THEN [block_col |-> NoCol, flat_col |-> NoCol, amount_col |-> NoCol]
            ELSE LET col_lower == str_lower(labels[k])
                     prev == F[k - 1]
                 IN  IF str_contains(col_lower, <<"b", "l", "o", "c", "k">>) /\ prev.block_col = NoCol
                     THEN [prev EXCEPT !.block_col = k]
                     ELSE IF /\ str_contains(col_lower, <<"f", "l", "a", "t">>)
                             /\ ~str_contains(col_lower, <<"s", "q", "u", "a", "r", "e">>)
                             /\ prev.flat_col = NoCol
                     THEN [prev EXCEPT !.flat_col = k]
                     ELSE IF /\ any_keyword_in(billing_amount_column_keywords, col_lower)
                             /\ prev.amount_col = NoCol
                     THEN [prev EXCEPT !.amount_col = k]
                     ELSE prev
    IN  F[Len(labels)]

\* astype(str).str.strip().str.replace('<', '').str.replace('>', '')
clean_part(text) == str_replace(str_replace(str_strip(text), "<", <<>>), ">", <<>>)

KeepFlatRow(r) ==
    /\ r.Block # <<>>
    /\ r.FlatNum # <<>>
    /\ r.Block # <<"n", "a", "n">>
    /\ r.FlatNum # <<"n", "a", "n">>
    /\ ~IsAggregate(r.Block)

_create_flat_data(rows, block_col, flat_col, amount_col) ==
    LET df_clean ==
            SelectSeq([i \in 1..Len(rows) |->
                          [Block |-> clean_part(cell_str(rows, i, block_col)),
                           FlatNum |-> clean_part(cell_str(rows, i, flat_col)),
                           Amount |-> to_numeric_fill0(rows[i][amount_col])]],
                      KeepFlatRow)
    IN  [i \in 1..Len(df_clean) |->
            [Flat |-> df_clean[i].Block \o df_clean[i].FlatNum,
             Amount |-> df_clean[i].Amount]]

_process_billing_sheet(raw) ==
    LET header_row == _find_billing_header(raw)
        cols == _find_billing_columns(column_labels(raw, header_row))
    IN  IF header_row = NoRow THEN NoFrame
        ELSE IF cols.block_col = NoCol \/ cols.flat_col = NoCol \/ cols.amount_col = NoCol
        THEN NoFrame
        ELSE DataFrame(_create_flat_data(data_rows(raw, header_row),
                                         cols.block_col, cols.flat_col, cols.amount_col))

_process_standard_sheet(raw) == NoFrame

\* pd.read_excel(file, sheet_name=sheet_name, header=None)
read_excel(workbook, sheet_name) ==
    workbook.sheets[CHOOSE i \in DOMAIN workbook.sheets :
                        workbook.sheets[i].name = sheet_name].grid

_process_sheet(workbook, sheet_name) ==
    LET raw == read_excel(workbook, sheet_name)
    IN  IF raw = <<>> THEN NoFrame
        ELSE IF str_contains(str_lower(sheet_name), <<"a", "l", "l", "o", "c", "a", "t", "i", "o", "n">>)
        THEN _process_allocation_sheet(raw)
        ELSE IF str_contains(str_lower(sheet_name), <<"d", "u", "e", "s", "_", "t", "m", "p", "t">>)
        THEN _process_billing_sheet(raw)
        ELSE _process_standard_sheet(raw)

sheet_names_of(workbook) == [i \in 1..Len(workbook.sheets) |-> workbook.sheets[i].name]

\* ------------------------------------------------------------------------
\* load_multi_sheet_excel (app.py): the header scan of the multi-sheet loader
\* ------------------------------------------------------------------------

multi_sheet_apartment_keywords ==
    <<<<"a", "p", "a", "r", "t", "m", "e", "n", "t">>,
      <<"a", "p", "a", "r", "t", "m">>,
      <<"f", "l", "a", "t">>,
      <<"u", "n", "i", "t">>,
      <<"s", "e", "r", "i", "a", "l">>>>
multi_sheet_billing_keywords ==
    <<<<"b", "i", "l", "l", "e", "d">>,
      <<"t", "o", "t", "a", "l">>,
      <<"c", "o", "n", "s", "u", "m", "p", "t", "i", "o", "n">>,
      <<"a", "m", "o", "u", "n", "t">>,
      <<"b", "i", "l", "l">>,
      <<"t", "o", " ", "b", "e">>,
      <<"d", "u", "e", "s">>>>

MultiSheetScanRows == 20

load_multi_sheet_excel_header_row(raw) ==
    FirstRow({i \in 0..(Min(MultiSheetScanRows, Len(raw)) - 1) :
        LET text == row_text(raw, i + 1)
        IN  /\ any_keyword_in(multi_sheet_apartment_keywords, text)
            /\ any_keyword_in(multi_sheet_billing_keywords, text)})

\* ------------------------------------------------------------------------
\* Workbooks handed to load_flat_data
\* ------------------------------------------------------------------------

\* sheets of one workbook
MaxSheets == 2

SheetNames ==
    {<<"F", "i", "n", "a", "l", " ", "a", "l", "l", "o", "c", "a", "t", "i", "o", "n", " ", "m", "o", "n", "t", "h", "l", "y">>,
     <<"F", "i", "n", "a", "l", " ", "a", "l", "l", "o", "c", "a", "t", "i", "o", "n">>,
     <<"A", "l", "l", "o", "c", "a", "t", "i", "o", "n">>,
     <<"W", "e", "G", "o", "t", " ", "a", "l", "l", "o", "c", "a", "t", "i", "o", "n">>,
     <<"I", "n", "p", "u", "t">>,
     <<"S", "u", "m", "m", "a", "r", "y">>,
     <<"D", "u", "e", "s", "_", "t", "m", "p", "t">>}

HeaderRow == <<Txt(<<"A", "p", "a", "r", "t", "m", "e", "n", "t">>), Txt(<<"O", "w", "n", "e", "r">>), Txt(<<"T", "o", "t", "a", "l">>)>>
TitleRow == <<Txt(<<"W", "a", "t", "e", "r">>), Empty, Empty>>
Entity(flat, amount) == <<Txt(flat), Txt(<<"R">>), Number(amount)>>

GridEmpty == <<>>
GridNoHeader == <<Entity(<<"A", "1", "0", "1">>, 100)>>
GridTitled == <<TitleRow, HeaderRow, Entity(<<"A", "1", "0", "1">>, 300), Entity(<<"A", "1", "0", "2">>, 0)>>
GridRepeated ==
    <<HeaderRow, Entity(<<"A", "1", "0", "1">>, 100), Entity(<<"A", "1", "0", "2", " ">>, 50), Entity(<<"A", "1", "0", "1">>, 200)>>
GridTotalsOnly == <<HeaderRow, Entity(<<"G", "r", "a", "n", "d", " ", "T", "o", "t", "a", "l">>, 350)>>
GridHeaderOnly == <<HeaderRow>>

SheetGrids ==
    {GridEmpty, GridNoHeader, GridTitled, GridRepeated, GridTotalsOnly, GridHeaderOnly}

Sheets == [name : SheetNames, grid : SheetGrids]

\* a workbook holds each sheet name once
Workbooks ==
    {[readable |-> TRUE, sheets |-> w] :
        w \in {x \in UNION {[1..n -> Sheets] : n \in 0..MaxSheets} :
                  \A i, j \in DOMAIN x : i # j => x[i].name # x[j].name}}
    \cup {[readable |-> FALSE, sheets |-> <<>>]}

\* ------------------------------------------------------------------------
\* load_flat_data as a run: open, try the sheets in order, return
\* ------------------------------------------------------------------------

AnalyzeIdle ==
    /\ df_last = <<>>
    /\ df_this = <<>>
    /\ results = None

InitLoad ==
    /\ pc = "start"
    /\ file \in Workbooks
    /\ processing_order = <<>>
    /\ next_sheet = 0
    /\ tried = <<>>
    /\ flat_data = NoFrame
    /\ AnalyzeIdle
    /\ SheetIdle
    /\ PatchIdle
    /\ FlowIdle

\* pd.ExcelFile(file) raises: the except clause returns None
OpenFails ==
    /\ pc = "start"
    /\ ~file.readable
    /\ flat_data' = NoFrame
    /\ pc' = "returned"
    /\ UNCHANGED <<df_last, df_this, results, file, processing_order,
                   next_sheet, tried>>
    /\ UNCHANGED <<sheetVars, patchVars, flowVars>>

Open ==
    /\ pc = "start"
    /\ file.readable
    /\ processing_order' = _get_processing_order(sheet_names_of(file))
    /\ next_sheet' = 1
    /\ pc' = "loop"
    /\ UNCHANGED <<df_last, df_this, results, file, tried, flat_data>>
    /\ UNCHANGED <<sheetVars, patchVars, flowVars>>

\* one iteration of the loop whose sheet yields a frame: return it
SheetWins ==
    /\ pc = "loop"
    /\ next_sheet <= Len(processing_order)
    /\ ~_process_sheet(file, processing_order[next_sheet]).is_none
    /\ tried' = Append(tried, processing_order[next_sheet])
    /\ flat_data' = _process_sheet(file, processing_order[next_sheet])
    /\ pc' = "returned"
    /\ UNCHANGED <<df_last, df_this, results, file, processing_order, next_sheet>>
    /\ UNCHANGED <<sheetVars, patchVars, flowVars>>

\* one iteration of the loop whose sheet yields None: on to the next
SheetFails ==
    /\ pc = "loop"
    /\ next_sheet <= Len(processing_order)
    /\ _process_sheet(file, processing_order[next_sheet]).is_none
    /\ tried' = Append(tried, processing_order[next_sheet])
    /\ next_sheet' = next_sheet + 1
    /\ UNCHANGED <<pc, df_last, df_this, results, file, processing_order, flat_data>>
    /\ UNCHANGED <<sheetVars, patchVars, flowVars>>

\* the loop ends without a frame
ReturnNone ==
    /\ pc = "loop"
    /\ next_sheet > Len(processing_order)
    /\ flat_data' = NoFrame
    /\ pc' = "returned"
    /\ UNCHANGED <<df_last, df_this, results, file, processing_order,
                   next_sheet, tried>>
    /\ UNCHANGED <<sheetVars, patchVars, flowVars>>

NextLoad == OpenFails \/ Open \/ SheetWins \/ SheetFails \/ ReturnNone

SpecLoad == InitLoad /\ [][NextLoad]_vars

\* ------------------------------------------------------------------------
\* The header scans as runs: a grid is read, one locator scans it
\* ------------------------------------------------------------------------

\* rows of a grid handed to a header scan
MaxGridRows == 3
\* rows that follow the leading rows of a long grid
MaxTailRows == 2

PartialHeaderRow == <<Txt(<<"A", "p", "a", "r", "t", "m", "e", "n", "t">>), Txt(<<"N", "a", "m", "e">>), Txt(<<"T", "o", "t", "a", "l">>)>>
BillingHeaderRow == <<Txt(<<"B", "l", "o", "c", "k">>), Txt(<<"F", "l", "a", "t">>), Txt(<<"A", "m", "o", "u", "n", "t", "*">>)>>
PartialBillingRow == <<Txt(<<"F", "l", "a", "t">>), Txt(<<"N", "a", "m", "e">>), Txt(<<"A", "m", "o", "u", "n", "t">>)>>
BlankRow == <<Empty, Empty, Empty>>

RowKinds ==
    {TitleRow, HeaderRow, PartialHeaderRow, BillingHeaderRow, PartialBillingRow,
     BlankRow, Entity(<<"A", "1", "0", "1">>, 100)}

GridsUpTo(n) == UNION {[1..k -> RowKinds] : k \in 0..n}

\* title rows above the table: up to, at and past each scan bound
LeadingRows == {0, 9, 10, 14, 15, 19, 20}
Leading(n) == [k \in 1..n |-> TitleRow]

LongGrids == {Leading(n) \o g : n \in LeadingRows, g \in GridsUpTo(MaxTailRows)}

OtherIdle ==
    /\ LoadIdle
    /\ AnalyzeIdle
    /\ PatchIdle
    /\ FlowIdle

InitHeader ==
    /\ pc = "sheet"
    /\ grid \in GridsUpTo(MaxGridRows)
    /\ locator = "none"
    /\ found_row = NoRow
    /\ found_cols = None
    /\ OtherIdle

InitScan ==
    /\ pc = "sheet"
    /\ grid \in LongGrids
    /\ locator = "none"
    /\ found_row = NoRow
    /\ found_cols = None
    /\ OtherIdle

FindAllocationHeader ==
    /\ pc = "sheet"
    /\ locator' = "allocation"
    /\ found_row' = _find_allocation_header(grid)
    /\ pc' = "located"
    /\ UNCHANGED <<df_last, df_this, results, file, processing_order,
                   next_sheet, tried, flat_data, grid, found_cols>>
    /\ UNCHANGED <<patchVars, flowVars>>

FindBillingHeader ==
    /\ pc = "sheet"
    /\ locator' = "billing"
    /\ found_row' = _find_billing_header(grid)
    /\ pc' = "located"
    /\ UNCHANGED <<df_last, df_this, results, file, processing_order,
                   next_sheet, tried, flat_data, grid, found_cols>>
    /\ UNCHANGED <<patchVars, flowVars>>

FindMultiSheetHeader ==
    /\ pc = "sheet"
    /\ locator' = "multi_sheet"
    /\ found_row' = load_multi_sheet_excel_header_row(grid)
    /\ pc' = "located"
    /\ UNCHANGED <<df_last, df_this, results, file, processing_order,
                   next_sheet, tried, flat_data, grid, found_cols>>
    /\ UNCHANGED <<patchVars, flowVars>>

NextHeader == FindAllocationHeader \/ FindBillingHeader \/ FindMultiSheetHeader

SpecHeader == InitHeader /\ [][NextHeader]_vars

SpecScan == InitScan /\ [][NextHeader]_vars

\* ------------------------------------------------------------------------
\* The column scans as runs: the header row is read as labels, one scan
\* assigns the roles
\* ------------------------------------------------------------------------

\* labels of one header row
MaxLabels == 3

LabelCells ==
    {Empty,
     Txt(<<"B", "l", "o", "c", "k">>),
     Txt(<<"F", "l", "a", "t">>),
     Txt(<<"A", "p", "a", "r", "t", "m", "e", "n", "t">>),
     Txt(<<"T", "o", "t", "a", "l">>),
     Txt(<<"A", "m", "o", "u", "n", "t", "*">>),
     Txt(<<"C", "u", "r", "r", "e", "n", "t", "D", "u", "e">>),
     Txt(<<"N", "a", "m", "e">>),
     Txt(<<"F", "l", "a", "t", " ", "T", "o", "t", "a", "l">>),
     Txt(<<"D", "u", "e", " ", "p", "e", "r", " ", "S", "q", "u", "a", "r", "e", " ", "F", "e", "e", "t">>),
     Txt(<<"F", "l", "a", "t", " ", "S", "q", "u", "a", "r", "e">>)}

LabelGrids == {<<row>> : row \in UNION {[1..n -> LabelCells] : n \in 1..MaxLabels}}

InitColumns ==
    /\ pc = "sheet"
    /\ grid \in LabelGrids
    /\ locator = "none"
    /\ found_row = 0
    /\ found_cols = None
    /\ OtherIdle

FindAllocationColumns ==
    /\ pc = "sheet"
    /\ locator' = "allocation"
    /\ found_cols' = _find_allocation_columns(column_labels(grid, found_row))
    /\ pc' = "assigned"
    /\ UNCHANGED <<df_last, df_this, results, file, processing_order,
                   next_sheet, tried, flat_data, grid, found_row>>
    /\ UNCHANGED <<patchVars, flowVars>>

FindBillingColumns ==
    /\ pc = "sheet"
    /\ locator' = "billing"
    /\ found_cols' = _find_billing_columns(column_labels(grid, found_row))
    /\ pc' = "assigned"
    /\ UNCHANGED <<df_last, df_this, results, file, processing_order,
                   next_sheet, tried, flat_data, grid, found_row>>
    /\ UNCHANGED <<patchVars, flowVars>>

NextColumns == FindAllocationColumns \/ FindBillingColumns

SpecColumns == InitColumns /\ [][NextColumns]_vars

\* ------------------------------------------------------------------------
\* The sheet extractions as runs: a grid with its header on top is handed
\* to _process_allocation_sheet or _process_billing_sheet
\* ------------------------------------------------------------------------

\* data rows under the header
MaxDataRows == 2

\* first column: the apartment, or the block
GroupCells ==
    {Empty,
     Txt(<<" ", "<", "A", ">", " ">>),
     Txt(<<"<", "A", "1", "0", "1", ">">>),
     Txt(<<"A">>),
     Txt(<<"G", "r", "a", "n", "d", " ", "T", "o", "t", "a", "l">>),
     Txt(<<"N", "o", "n", "e">>)}
\* second column: the owner, or the flat number
SubCells ==
    {Empty,
     Txt(<<" ", "<", "1", "0", "1", ">", " ">>),
     Txt(<<"1", "0", "1">>),
     Txt(<<"T", "o", "t", "a", "l">>)}

DataRows == {<<g, f, Number(100)>> : g \in GroupCells, f \in SubCells}

ExtractGrids ==
    {<<h>> \o d : h \in {HeaderRow, BillingHeaderRow},
                  d \in UNION {[1..n -> DataRows] : n \in 0..MaxDataRows}}

InitExtract ==
    /\ pc = "sheet"
    /\ grid \in ExtractGrids
    /\ locator = "none"
    /\ found_row = NoRow
    /\ found_cols = None
    /\ OtherIdle

ProcessAllocationSheet ==
    /\ pc = "sheet"
    /\ locator' = "allocation"
    /\ found_row' = _find_allocation_header(grid)
    /\ found_cols' = IF found_row' = NoRow THEN None
                      ELSE _find_allocation_columns(column_labels(grid, found_row'))
    /\ flat_data' = _process_allocation_sheet(grid)
    /\ pc' = "extracted"
    /\ UNCHANGED <<df_last, df_this, results, file, processing_order,
                   next_sheet, tried, grid>>
    /\ UNCHANGED <<patchVars, flowVars>>

ProcessBillingSheet ==
    /\ pc = "sheet"
    /\ locator' = "billing"
    /\ found_row' = _find_billing_header(grid)
    /\ found_cols' = IF found_row' = NoRow THEN None
                      ELSE _find_billing_columns(column_labels(grid, found_row'))
    /\ flat_data' = _process_billing_sheet(grid)
    /\ pc' = "extracted"
    /\ UNCHANGED <<df_last, df_this, results, file, processing_order,
                   next_sheet, tried, grid>>
    /\ UNCHANGED <<patchVars, flowVars>>

NextExtract == ProcessAllocationSheet \/ ProcessBillingSheet

SpecExtract == InitExtract /\ [][NextExtract]_vars

\* ------------------------------------------------------------------------
\* Worksheets (openpyxl) and frames (pandas) of the billing workflow
\* ------------------------------------------------------------------------

\* a formula cell: its text, and the cached value a values-only reader sees
Formula(text, cached) == [t |-> "formula", s |-> text, n |-> cached]
\* a float nan written into a cell
NanCell == [t |-> "nan", s |-> <<>>, n |-> 0]

\* a worksheet: its non-empty cells by <<row, column>> (from 1), and its
\* merged ranges
Worksheet(cells, merged) == [cells |-> cells, merged |-> merged]
MergedRange(r1, c1, r2, c2) == [r1 |-> r1, c1 |-> c1, r2 |-> r2, c2 |-> c2]

Max(S) == CHOOSE x \in S : \A y \in S : x >= y

\* every cell of a merged range but its top-left one is a read-only MergedCell
IsMergedCell(ws, r, c) ==
    \E m \in ws.merged : /\ r \in m.r1..m.r2
                         /\ c \in m.c1..m.c2
                         /\ <<r, c>> # <<m.r1, m.c1>>

max_row(ws) == Max({1} \cup {p[1] : p \in DOMAIN ws.cells} \cup {m.r2 : m \in ws.merged})
max_column(ws) == Max({1} \cup {p[2] : p \in DOMAIN ws.cells} \cup {m.c2 : m \in ws.merged})

\* a frame: its shape, its non-null values by <<row, column>> (from 0), and
\* its column labels (none when read with header=None)
Frame(nrows, ncols, at, labels) ==
    [nrows |-> nrows, ncols |-> ncols, at |-> at, columns |-> labels]

iloc(df, i, j) == IF <<i, j>> \in DOMAIN df.at THEN df.at[<<i, j>>] ELSE Empty

set_iloc(df, i, j, value) ==
    [df EXCEPT !.at = [p \in DOMAIN df.at \cup {<<i, j>>} |->
                          IF p = <<i, j>> THEN value ELSE df.at[p]]]

notna(value) == value.t # "empty"

\* str(value) of a value of a frame
value_str(value) ==
    IF value.t = "text" THEN value.s
    ELSE IF value.t = "number" THEN int_str(value.n)
    ELSE <<"n", "a", "n">>

\* pd.read_excel(file, sheet_name, header=None): the values, a formula by
\* its cached value, up to the last row and column that hold data
read_sheet(ws) ==
    LET data == DOMAIN ws.cells
    IN  Frame(Max({0} \cup {p[1] : p \in data}),
              Max({0} \cup {p[2] : p \in data}),
              [p \in {<<q[1] - 1, q[2] - 1>> : q \in data} |->
                  LET c == ws.cells[<<p[1] + 1, p[2] + 1>>]
                  IN  IF c.t = "formula" THEN Number(c.n) ELSE c],
              <<>>)

load_billing_template(file_content) ==
    [name \in DOMAIN file_content.sheets |-> read_sheet(file_content.sheets[name])]

\* sheet_data.to_excel(writer, index=False, header=False)
to_excel(df) ==
    Worksheet([p \in {<<q[1] + 1, q[2] + 1>> : q \in DOMAIN df.at} |->
                  df.at[<<p[1] - 1, p[2] - 1>>]],
              {})

\* dataframe_to_rows(df, index=False, header=True)
dataframe_to_rows(df) ==
    <<df.columns>> \o [i \in 1..df.nrows |-> [j \in 1..df.ncols |-> iloc(df, i - 1, j - 1)]]

\* ------------------------------------------------------------------------
\* BillingWorkflowManager._update_billing_template_with_wegot_data
\* ------------------------------------------------------------------------

\* the first row, in order, of the rows that match, or no row
FirstIndex(matching) ==
    IF matching = {} THEN NoRow
    ELSE CHOOSE i \in matching : \A k \in matching : i <= k

\* cell_value of row i: the lower-cased label of column 1, '' for a blank
label_lower(df, i) ==
    IF notna(iloc(df, i, 1)) THEN str_lower(value_str(iloc(df, i, 1))) ELSE <<>>

month_row(df) ==
    FirstIndex({i \in 0..(df.nrows - 1) :
        notna(iloc(df, i, 1)) /\ label_lower(df, i) = <<"m", "o", "n", "t", "h">>})

bwssb_keywords == <<<<"c", "a", "u", "v", "e", "r", "y">>, <<"b", "w", "s", "s", "b">>, <<"b", "e", "s", "c", "o", "m">>>>

bwssb_row(df) ==
    FirstIndex({i \in 0..(df.nrows - 1) : any_keyword_in(bwssb_keywords, label_lower(df, i))})

tanker_row(df) ==
    FirstIndex({i \in 0..(df.nrows - 1) : str_contains(label_lower(df, i), <<"t", "a", "n", "k", "e", "r">>)})

\* the three loops over the Input sheet; raised: row.iloc[1] or
\* input_sheet.iloc[idx, 2] is out of the frame's columns (IndexError)
update_input_sheet(input_sheet, month_name, bwssb, tanker) ==
    LET rows == {month_row(input_sheet), bwssb_row(input_sheet), tanker_row(input_sheet)}
        s1 == IF month_row(input_sheet) = NoRow THEN input_sheet
              ELSE set_iloc(input_sheet, month_row(input_sheet), 2, Txt(month_name))
        s2 == IF bwssb_row(input_sheet) = NoRow THEN s1
              ELSE set_iloc(s1, bwssb_row(input_sheet), 2, Number(bwssb))
        s3 == IF tanker_row(input_sheet) = NoRow THEN s2
              ELSE set_iloc(s2, tanker_row(input_sheet), 2, Number(tanker))
    IN  [raised |-> \/ (input_sheet.nrows > 0 /\ input_sheet.ncols < 2)
                    \/ (rows # {NoRow} /\ input_sheet.ncols < 3),
         sheet |-> s3]

\* month_to_row of the frame update: 0-based row of the month, or no row
month_to_row ==
    [m \in {<<"J", "a", "n">>, <<"F", "e", "b">>, <<"M", "a", "r">>, <<"A", "p", "r">>, <<"M", "a", "y">>, <<"J", "u", "n">>,
            <<"J", "u", "l">>, <<"A", "u", "g">>, <<"S", "e", "p">>, <<"O", "c", "t">>, <<"N", "o", "v">>, <<"D", "e", "c">>} |->
        IF m = <<"J", "a", "n">> THEN 4 ELSE IF m = <<"F", "e", "b">> THEN 5 ELSE IF m = <<"M", "a", "r">> THEN 6
        ELSE IF m = <<"A", "p", "r">> THEN 7 ELSE IF m = <<"M", "a", "y">> THEN 8 ELSE IF m = <<"J", "u", "n">> THEN 9
        ELSE IF m = <<"J", "u", "l">> THEN 10 ELSE IF m = <<"A", "u", "g">> THEN 14 ELSE IF m = <<"S", "e", "p">> THEN 15
        ELSE IF m = <<"O", "c", "t">> THEN 16 ELSE IF m = <<"N", "o", "v">> THEN 17 ELSE 18]

update_allocation_sheet(allocation_sheet, month_name, bwssb, tanker) ==
    IF month_name \notin DOMAIN month_to_row
    THEN [raised |-> FALSE, sheet |-> allocation_sheet]
    ELSE LET row_num == month_to_row[month_name]
         IN  [raised |-> row_num >= allocation_sheet.nrows \/ allocation_sheet.ncols < 4,
              sheet |-> set_iloc(set_iloc(allocation_sheet, row_num, 2, Number(bwssb)),
                                 row_num, 3, Number(tanker))]

\* the returned updated_sheets, or raised when any step raised
_update_billing_template_with_wegot_data(wegot, billing_sheets, month_name, bwssb, tanker) ==
    LET names == DOMAIN billing_sheets
        input == IF "Input" \in names
                 THEN update_input_sheet(billing_sheets["Input"], month_name, bwssb, tanker)
                 ELSE [raised |-> FALSE, sheet |-> None]
        allocation == IF "Allocation" \in names
                      THEN update_allocation_sheet(billing_sheets["Allocation"],
                                                   month_name, bwssb, tanker)
                      ELSE [raised |-> FALSE, sheet |-> None]
    IN  [raised |-> input.raised \/ allocation.raised,
         sheets |-> [name \in names |->
                        IF name = "WeGot report" THEN wegot
                        ELSE IF name = "Input" THEN input.sheet
                        ELSE IF name = "Allocation" THEN allocation.sheet
                        ELSE billing_sheets[name]]]

\* ------------------------------------------------------------------------
\* BillingWorkflowManager.get_updated_billing_template_download
\* ------------------------------------------------------------------------

ClearRows == 1000
ClearColumns == 50
ClearRowMargin == 100
ClearColumnMargin == 10

\* the clearing loops stopping above the last row of the sheet
clear_data_area_BelowLastRow(ws) ==
    LET rows == 1..(Min(ClearRows, max_row(ws)) - 1)
        cols == 1..(Min(ClearColumns, max_column(ws) + ClearColumnMargin) - 1)
        kept == {p \in DOMAIN ws.cells :
                    ~(p[1] \in rows /\ p[2] \in cols /\ ws.cells[p].t # "formula")}
    IN  [ws EXCEPT !.cells = [p \in kept |-> ws.cells[p]]]

\* the clearing loops: every cell of the data area that is no formula is
\* emptied (a MergedCell holds nothing and refuses the assignment)
clear_data_area(ws) ==
    LET rows == 1..(Min(ClearRows, max_row(ws) + ClearRowMargin) - 1)
        cols == 1..(Min(ClearColumns, max_column(ws) + ClearColumnMargin) - 1)
        kept == {p \in DOMAIN ws.cells :
                    ~(p[1] \in rows /\ p[2] \in cols /\ ws.cells[p].t # "formula")}
    IN  [ws EXCEPT !.cells = [p \in kept |-> ws.cells[p]]]

\* the insertion loops: ws.cell(row=r_idx, column=c_idx, value=value) from
\* A1 on; a MergedCell refuses the value and is skipped
insert_rows(ws, rows) ==
    LET targets == {p \in UNION {{<<r, c>> : c \in 1..Len(rows[r])} : r \in 1..Len(rows)} :
                       ~IsMergedCell(ws, p[1], p[2])}
    IN  [ws EXCEPT !.cells = [p \in DOMAIN ws.cells \cup targets |->
                                 IF p \in targets
                                 THEN IF notna(rows[p[1]][p[2]]) THEN rows[p[1]][p[2]]
                                      ELSE NanCell
                                 ELSE ws.cells[p]]]

replace_wegot_report(ws, wegot) == insert_rows(clear_data_area(ws), dataframe_to_rows(wegot))

\* Optional values of the allocation update
Unset == [set |-> FALSE, v |-> Empty]
Value(v) == [set |-> TRUE, v |-> v]

\* month, bwssb_reading and tanker_reading as read back from the Input
\* frame: every row is looked at, the last match stays
read_input_frame(df) ==
    LET months == {i \in 0..(df.nrows - 1) :
                      notna(iloc(df, i, 1)) /\ label_lower(df, i) = <<"m", "o", "n", "t", "h">>}
        bwssbs == {i \in 0..(df.nrows - 1) :
                      /\ i \notin months
                      /\ \/ str_contains(label_lower(df, i), <<"c", "a", "u", "v", "e", "r", "y">>)
                         \/ str_contains(label_lower(df, i), <<"b", "w", "s", "s", "b">>)}
        tankers == {i \in 0..(df.nrows - 1) :
                       /\ i \notin months
                       /\ i \notin bwssbs
                       /\ str_contains(label_lower(df, i), <<"t", "a", "n", "k", "e", "r">>)}
    IN  [raised |-> \/ (df.nrows > 0 /\ df.ncols < 2)
                    \/ ((months \cup bwssbs \cup tankers) # {} /\ df.ncols < 3),
         month |-> IF months = {} THEN Unset
                   ELSE Value(Txt(str_strip(value_str(iloc(df, Max(months), 2))))),
         bwssb_reading |-> IF bwssbs = {} THEN Unset ELSE Value(iloc(df, Max(bwssbs), 2)),
         tanker_reading |-> IF tankers = {} THEN Unset ELSE Value(iloc(df, Max(tankers), 2))]

\* the same three as overridden from the Allocation frame: the first row
\* labelled 'Aug' or 'Sep' sets the month and, where not null, the readings
read_allocation_frame(df, before) ==
    LET named == {i \in 0..(df.nrows - 1) :
                     /\ notna(iloc(df, i, 1))
                     /\ str_strip(value_str(iloc(df, i, 1))) \in {<<"A", "u", "g">>, <<"S", "e", "p">>}}
        i == FirstIndex(named)
    IN  IF named = {}
        THEN [before EXCEPT !.raised = before.raised \/ (df.nrows > 0 /\ df.ncols < 2)]
        ELSE [raised |-> before.raised \/ df.ncols < 4,
              month |-> Value(Txt(str_strip(value_str(iloc(df, i, 1))))),
              bwssb_reading |-> IF notna(iloc(df, i, 2)) THEN Value(iloc(df, i, 2))
                                ELSE before.bwssb_reading,
              tanker_reading |-> IF notna(iloc(df, i, 3)) THEN Value(iloc(df, i, 3))
                                 ELSE before.tanker_reading]

\* float(reading) if reading else 0; raised: the text is no number
to_float(value) ==
    IF value.t = "number" THEN [raised |-> FALSE, cell |-> Number(value.n)]
    ELSE IF value.t = "empty" THEN [raised |-> FALSE, cell |-> NanCell]
    ELSE IF value.s = <<>> THEN [raised |-> FALSE, cell |-> Number(0)]
    ELSE IF IsDigits(str_strip(value.s))
    THEN [raised |-> FALSE, cell |-> Number(digits_int(str_strip(value.s)))]
    ELSE [raised |-> TRUE, cell |-> Empty]

\* the worksheet row (from 1) the readings of a month are written to
allocation_ws_row(month_name) ==
    IF month_name = <<"A", "u", "g">> THEN 15 ELSE IF month_name = <<"S", "e", "p">> THEN 16
    ELSE IF month_name = <<"O", "c", "t">> THEN 17 ELSE IF month_name = <<"J", "a", "n">> THEN 8
    ELSE IF month_name = <<"F", "e", "b">> THEN 9 ELSE IF month_name = <<"M", "a", "r">> THEN 10
    ELSE IF month_name = <<"A", "p", "r">> THEN 11 ELSE IF month_name = <<"M", "a", "y">> THEN 12
    ELSE IF month_name = <<"J", "u", "n">> THEN 13 ELSE IF month_name = <<"J", "u", "l">> THEN 14
    ELSE IF month_name = <<"N", "o", "v">> THEN 18 ELSE IF month_name = <<"D", "e", "c">> THEN 19
    ELSE NoRow

write_cell(ws, r, c, value) ==
    [ws EXCEPT !.cells = [p \in DOMAIN ws.cells \cup {<<r, c>>} |->
                             IF p = <<r, c>> THEN value ELSE ws.cells[p]]]

\* the update writing whenever a month is known, a missing reading as 0
update_allocation_ws_MonthOnly(allocation_ws, updated) ==
    LET has_updated == updated # None /\ DOMAIN updated # {}
        nothing == [raised |-> FALSE, month |-> Unset,
                    bwssb_reading |-> Unset, tanker_reading |-> Unset]
        from_input == IF has_updated /\ "Input" \in DOMAIN updated
                      THEN read_input_frame(updated["Input"]) ELSE nothing
        read == IF from_input.raised THEN from_input
                ELSE IF has_updated /\ "Allocation" \in DOMAIN updated
                THEN read_allocation_frame(updated["Allocation"], from_input)
                ELSE from_input
        c4 == IF <<4, 3>> \in DOMAIN allocation_ws.cells
              THEN allocation_ws.cells[<<4, 3>>] ELSE Empty
        c4_true == \/ (c4.t \in {"text", "formula"} /\ c4.s # <<>>)
                   \/ (c4.t = "number" /\ c4.n # 0)
        month_name == IF read.month.set /\ read.month.v.s # <<>> THEN read.month.v.s
                      ELSE IF c4_true THEN str_strip(value_str([c4 EXCEPT !.t =
                                               IF c4.t = "formula" THEN "text" ELSE c4.t]))
                      ELSE <<>>
        bwssb_val == IF read.bwssb_reading.set THEN to_float(read.bwssb_reading.v)
                     ELSE [raised |-> FALSE, cell |-> Number(0)]
        tanker_val == IF read.tanker_reading.set THEN to_float(read.tanker_reading.v)
                      ELSE [raised |-> FALSE, cell |-> Number(0)]
        row_num == allocation_ws_row(month_name)
    IN  IF \/ read.raised
           \/ month_name = <<>>
        THEN allocation_ws
        ELSE IF bwssb_val.raised \/ tanker_val.raised \/ row_num = NoRow
             \/ IsMergedCell(allocation_ws, row_num, 3)
        THEN allocation_ws
        ELSE IF IsMergedCell(allocation_ws, row_num, 4)
        THEN write_cell(allocation_ws, row_num, 3, bwssb_val.cell)
        ELSE write_cell(write_cell(allocation_ws, row_num, 3, bwssb_val.cell),
                        row_num, 4, tanker_val.cell)

\* the Allocation worksheet after the update of the month's readings; any
\* exception inside is caught and leaves the sheet as it is at that point
update_allocation_ws(allocation_ws, updated) ==
    LET has_updated == updated # None /\ DOMAIN updated # {}
        nothing == [raised |-> FALSE, month |-> Unset,
                    bwssb_reading |-> Unset, tanker_reading |-> Unset]
        from_input == IF has_updated /\ "Input" \in DOMAIN updated
                      THEN read_input_frame(updated["Input"]) ELSE nothing
        read == IF from_input.raised THEN from_input
                ELSE IF has_updated /\ "Allocation" \in DOMAIN updated
                THEN read_allocation_frame(updated["Allocation"], from_input)
                ELSE from_input
        c4 == IF <<4, 3>> \in DOMAIN allocation_ws.cells
              THEN allocation_ws.cells[<<4, 3>>] ELSE Empty
        c4_true == \/ (c4.t \in {"text", "formula"} /\ c4.s # <<>>)
                   \/ (c4.t = "number" /\ c4.n # 0)
        month_name == IF read.month.set /\ read.month.v.s # <<>> THEN read.month.v.s
                      ELSE IF c4_true THEN str_strip(value_str([c4 EXCEPT !.t =
                                               IF c4.t = "formula" THEN "text" ELSE c4.t]))
                      ELSE <<>>
        bwssb_val == to_float(read.bwssb_reading.v)
        tanker_val == to_float(read.tanker_reading.v)
        row_num == allocation_ws_row(month_name)
    IN  IF \/ read.raised
           \/ month_name = <<>>
           \/ ~read.bwssb_reading.set
           \/ ~read.tanker_reading.set
        THEN allocation_ws
        ELSE IF bwssb_val.raised \/ tanker_val.raised \/ row_num = NoRow
             \/ IsMergedCell(allocation_ws, row_num, 3)
        THEN allocation_ws
        ELSE IF IsMergedCell(allocation_ws, row_num, 4)
        THEN write_cell(allocation_ws, row_num, 3, bwssb_val.cell)
        ELSE write_cell(write_cell(allocation_ws, row_num, 3, bwssb_val.cell),
                        row_num, 4, tanker_val.cell)

\* the returned stream: the workbook it holds and the path that made it
\* (load_workbook raising leads to the rebuild from the updated frames)
get_updated_billing_template_download(file_content, wegot, updated) ==
    IF ~file_content.loadable
    THEN IF updated = None
         THEN [outcome |-> "error", sheets |-> <<>>]
         ELSE [outcome |-> "fallback",
               sheets |-> [name \in DOMAIN updated |-> to_excel(updated[name])]]
    ELSE [outcome |-> "primary",
          sheets |-> [name \in DOMAIN file_content.sheets |->
              IF name = "WeGot report" /\ wegot # None
              THEN replace_wegot_report(file_content.sheets[name], wegot)
              ELSE IF name = "Allocation"
              THEN update_allocation_ws(file_content.sheets[name], updated)
              ELSE file_content.sheets[name]]]

\* what the caller holds after the call: the exception, or the bytes of
\* output.getvalue() and nothing else
returned_to_caller(result) ==
    [raised |-> result.outcome = "error", bytes |-> result.sheets]

\* ------------------------------------------------------------------------
\* The billing workflow as a run: the files are loaded, the template is
\* updated for a month and two readings, the updated file is downloaded
\* ------------------------------------------------------------------------

\* cells of the prior 'WeGot report' sheet
MaxPriorCells == 2
\* data rows of the WeGot table
MaxTableRows == 1
\* rows of the 'Input' sheet
MaxInputRows == 2

\* a workbook with the sheets that are given (None: no such sheet)
Workbook(loadable, wegot_ws, input_ws, allocation_ws, summary_ws) ==
    LET given == [n \in {"WeGot report", "Input", "Allocation", "Summary"} |->
                     IF n = "WeGot report" THEN wegot_ws
                     ELSE IF n = "Input" THEN input_ws
                     ELSE IF n = "Allocation" THEN allocation_ws
                     ELSE summary_ws]
    IN  [loadable |-> loadable,
         sheets |-> [n \in {k \in DOMAIN given : given[k] # None} |-> given[n]]]

\* a sheet with the given sequence of rows, from A1
SheetOfRows(rows) ==
    Worksheet([p \in {q \in UNION {{<<r, c>> : c \in 1..Len(rows[r])} : r \in 1..Len(rows)} :
                         rows[q[1]][q[2]] # Empty} |-> rows[p[1]][p[2]]],
              {})

\* prior 'WeGot report' sheets: old values and formulas inside the data
\* area, on its last row and column, and past them; with a merged title
PriorPositions == {<<1, 1>>, <<2, 2>>, <<3, 1>>, <<999, 1>>, <<1000, 1>>, <<1, 49>>, <<1, 50>>}
PriorContents == {Txt(<<"o", "l", "d">>), Formula(<<"=", "A", "1">>, 7)}

PriorSheets ==
    {Worksheet(cells, merged) :
        cells \in UNION {[S -> PriorContents] :
                            S \in {T \in SUBSET PriorPositions : Cardinality(T) <= MaxPriorCells}},
        merged \in {{}, {MergedRange(1, 1, 1, 2)}}}

\* WeGot tables: one or two labelled columns, full rows
WegotTables ==
    {Frame(n, w, [p \in (0..(n - 1)) \X (0..(w - 1)) |-> Number(10 * (p[1] + 1) + p[2] + 1)],
           [j \in 1..w |-> Txt(<<"H">> \o int_str(j))]) :
        n \in 0..MaxTableRows, w \in 1..2}

\* 'Input' sheets: labels in column B, values in column C
InputLabels ==
    {Txt(<<"M", "o", "n", "t", "h">>), Txt(<<"M", "O", "N", "T", "H">>), Txt(<<"M", "o", "n", "t", "h", " ", "n", "a", "m", "e">>),
     Txt(<<"C", "a", "u", "v", "e", "r", "y", " ", "w", "a", "t", "e", "r">>), Txt(<<"T", "a", "n", "k", "e", "r">>), Empty}
InputValues == {Txt(<<"J", "u", "l">>), Empty}

InputSheets ==
    {SheetOfRows(rows) :
        rows \in UNION {[1..n -> {<<Empty, l, v>> : l \in InputLabels, v \in InputValues}] :
                           n \in 0..MaxInputRows}}

TemplateInput ==
    SheetOfRows(<<<<Empty, Txt(<<"M", "o", "n", "t", "h">>), Txt(<<"J", "u", "l">>)>>,
                  <<Empty, Txt(<<"C", "a", "u", "v", "e", "r", "y">>), Number(50)>>,
                  <<Empty, Txt(<<"T", "a", "n", "k", "e", "r">>), Number(60)>>>>)

\* 'Allocation' sheets: the month table in columns B..D
AllocationFilled ==
    Worksheet((<<4, 3>> :> Txt(<<"A", "u", "g">>)) @@ (<<5, 2>> :> Txt(<<"J", "a", "n">>)) @@ (<<5, 3>> :> Number(10)) @@ (<<5, 4>> :> Number(20))
              @@ (<<15, 2>> :> Txt(<<"A", "u", "g">>)) @@ (<<15, 3>> :> Number(30)) @@ (<<15, 4>> :> Number(40))
              @@ (<<19, 2>> :> Txt(<<"D", "e", "c">>)) @@ (<<19, 4>> :> Formula(<<"=", "C", "1", "9">>, 0)),
              {})
AllocationBlank ==
    Worksheet((<<5, 2>> :> Txt(<<"J", "a", "n">>)) @@ (<<15, 2>> :> Txt(<<"A", "u", "g">>))
              @@ (<<19, 2>> :> Txt(<<"D", "e", "c">>)) @@ (<<19, 4>> :> Formula(<<"=", "C", "1", "9">>, 0)),
              {})
AllocationUnlabelled == Worksheet(<<19, 4>> :> Formula(<<"=", "C", "1", "9">>, 0), {})
AllocationSmall == Worksheet(<<1, 1>> :> Txt(<<"A", "l", "l", "o", "c", "a", "t", "i", "o", "n">>), {})

AllocationSheets ==
    {None, AllocationFilled, AllocationBlank, AllocationUnlabelled, AllocationSmall}

SummarySheet ==
    Worksheet((<<1, 1>> :> Txt(<<"S", "u", "m", "m", "a", "r", "y">>)) @@ (<<2, 1>> :> Formula(<<"=", "S", "U", "M", "(", "B", ":", "B", ")">>, 5)),
              {MergedRange(1, 1, 1, 3)})

PriorSheetDefault == Worksheet(<<1, 1>> :> Txt(<<"o", "l", "d">>), {})
WegotTableDefault == Frame(1, 1, <<0, 0>> :> Number(11), <<Txt(<<"H", "1">>)>>)

Months == {<<"A", "u", "g">>, <<"J", "a", "n">>}
BwssbReadings == {0, 120}
TankerReadings == {75}

NoPatchYet ==
    /\ wegot_data = None
    /\ billing_template_file = None
    /\ billing_template = None
    /\ updated_billing_template = None
    /\ selected = None
    /\ download = None
    /\ LoadIdle
    /\ AnalyzeIdle
    /\ SheetIdle

\* the raw-data sheet and the WeGot table vary
InitReplace ==
    /\ pc = "uploaded"
    /\ uploaded \in [wegot_file : WegotTables,
                     billing_file : {Workbook(TRUE, ws, TemplateInput, allocation_ws,
                                              SummarySheet) :
                                        ws \in PriorSheets,
                                        allocation_ws \in {AllocationFilled, AllocationSmall}}]
    /\ NoPatchYet
    /\ FlowIdle

\* the parameter sheet, the allocation sheet and the readability vary
InitUpdate ==
    /\ pc = "uploaded"
    /\ uploaded \in [wegot_file : {WegotTableDefault},
                     billing_file : {Workbook(ok, PriorSheetDefault, input_ws, allocation_ws,
                                              SummarySheet) :
                                        ok \in BOOLEAN,
                                        input_ws \in InputSheets \cup {TemplateInput, None},
                                        allocation_ws \in AllocationSheets}]
    /\ NoPatchYet
    /\ FlowIdle

\* load_wegot_data and load_billing_template
LoadFiles ==
    /\ pc = "uploaded"
    /\ wegot_data' = uploaded.wegot_file
    /\ billing_template_file' = uploaded.billing_file
    /\ billing_template' = load_billing_template(uploaded.billing_file)
    /\ pc' = "loaded"
    /\ UNCHANGED <<uploaded, updated_billing_template, selected, download>>
    /\ UNCHANGED <<df_last, df_this, results, file, processing_order,
                   next_sheet, tried, flat_data, sheetVars, flowVars>>

\* the update step returns: updated_billing_template is stored
UpdateTemplate ==
    /\ pc = "loaded"
    /\ \E m \in Months, b \in BwssbReadings, t \in TankerReadings :
          LET u == _update_billing_template_with_wegot_data(
                       wegot_data, billing_template, m, b, t)
          IN  /\ ~u.raised
              /\ selected' = [month |-> m, bwssb_reading |-> b, tanker_reading |-> t]
              /\ updated_billing_template' = u.sheets
    /\ pc' = "updated"
    /\ UNCHANGED <<uploaded, wegot_data, billing_template_file, billing_template, download>>
    /\ UNCHANGED <<df_last, df_this, results, file, processing_order,
                   next_sheet, tried, flat_data, sheetVars, flowVars>>

\* the update step raises: nothing is stored
UpdateRaises ==
    /\ pc = "loaded"
    /\ \E m \in Months, b \in BwssbReadings, t \in TankerReadings :
          /\ _update_billing_template_with_wegot_data(
                 wegot_data, billing_template, m, b, t).raised
          /\ selected' = [month |-> m, bwssb_reading |-> b, tanker_reading |-> t]
    /\ pc' = "update failed"
    /\ UNCHANGED <<uploaded, wegot_data, billing_template_file, billing_template,
                   updated_billing_template, download>>
    /\ UNCHANGED <<df_last, df_this, results, file, processing_order,
                   next_sheet, tried, flat_data, sheetVars, flowVars>>

Download ==
    /\ pc \in {"loaded", "updated", "update failed"}
    /\ download' = get_updated_billing_template_download(
                       billing_template_file, wegot_data, updated_billing_template)
    /\ pc' = "downloaded"
    /\ UNCHANGED <<uploaded, wegot_data, billing_template_file, billing_template,
                   updated_billing_template, selected>>
    /\ UNCHANGED <<df_last, df_this, results, file, processing_order,
                   next_sheet, tried, flat_data, sheetVars, flowVars>>

NextPatch == LoadFiles \/ UpdateTemplate \/ UpdateRaises \/ Download

SpecReplace == InitReplace /\ [][NextPatch]_vars

SpecUpdate == InitUpdate /\ [][NextPatch]_vars

\* ------------------------------------------------------------------------
\* _generate_adda_template_from_file: the rows of the Adda template are
\* filled with the amounts of the final allocation
\* ------------------------------------------------------------------------

\* str.strip(chars): leading and trailing characters of the set are removed
str_strip_chars(s, chars) ==
    LET keep == {i \in 1..Len(s) : s[i] \notin chars}
    IN  IF keep = {} THEN <<>>
        ELSE SubSeq(s, CHOOSE i \in keep : \A j \in keep : i <= j, Max(keep))

\* f"{row['Block'].strip('<>')}{row['Flat'].strip('<>')}"
apt_code(block, flat) ==
    str_strip_chars(block, {"<", ">"}) \o str_strip_chars(flat, {"<", ">"})

account_number == 301004
adda_comment == <<"W", "a", "t", "e", "r", " ", "c", "o", "s", "t", " ", "a", "t", " ", "a", "c", "t", "u", "a", "l", "s">>

\* the rows of final_allocation_df whose Apartment is the code
matching_apt(final_allocation_df, code) ==
    SelectSeq(final_allocation_df, LAMBDA r : r.Apartment = code)

\* the body of the loop for one row past index 0
fill_adda_row(row, final_allocation_df, today) ==
    LET matching == matching_apt(final_allocation_df, apt_code(row.Block.s, row.Flat.s))
    IN  IF matching = <<>> THEN row
        ELSE [row EXCEPT !.Amount = Number(matching[1].To_Be_Billed),
                         !.AccountNo = Number(account_number),
                         !.InvoiceDate = Txt(today),
                         !.Comment = Txt(adda_comment)]

\* slip: a row without a match gets the amount 0
_generate_adda_template_from_file_ZeroUnmatched(final_allocation_df, template_file, today) ==
    IF ~template_file.readable \/ template_file.ncols # 11
    THEN [raised |-> TRUE, rows |-> <<>>]
    ELSE IF \E i \in 2..Len(template_file.rows) :
                \/ template_file.rows[i].Block.t # "text"
                \/ template_file.rows[i].Flat.t # "text"
    THEN [raised |-> TRUE, rows |-> <<>>]
    ELSE [raised |-> FALSE,
          rows |-> [i \in 1..Len(template_file.rows) |->
                       IF i = 1 THEN template_file.rows[i]
                       ELSE IF matching_apt(final_allocation_df,
                                    apt_code(template_file.rows[i].Block.s,
                                             template_file.rows[i].Flat.s)) = <<>>
                       THEN [template_file.rows[i] EXCEPT !.Amount = Number(0)]
                       ELSE fill_adda_row(template_file.rows[i], final_allocation_df, today)]]

\* the returned frame (rows in template order; row i is index i - 1), or
\* raised: read_excel fails, the eleven names do not fit the columns, or
\* .strip is called on a cell that is no text
_generate_adda_template_from_file(final_allocation_df, template_file, today) ==
    IF ~template_file.readable \/ template_file.ncols # 11
    THEN [raised |-> TRUE, rows |-> <<>>]
    ELSE IF \E i \in 2..Len(template_file.rows) :
                \/ template_file.rows[i].Block.t # "text"
                \/ template_file.rows[i].Flat.t # "text"
    THEN [raised |-> TRUE, rows |-> <<>>]
    ELSE [raised |-> FALSE,
          rows |-> [i \in 1..Len(template_file.rows) |->
                       IF i = 1 THEN template_file.rows[i]
                       ELSE fill_adda_row(template_file.rows[i], final_allocation_df, today)]]

\* data rows of the Adda template
MaxTemplateRows == 2
\* rows of the final allocation
MaxAllocationRows == 2

BlockCells == {Txt(<<"<", "A", ">">>), Txt(<<" ", "<", "A", ">", " ">>), Txt(<<"<", "A", "<", "1", ">">>), Txt(<<"<", "Z", ">">>), Empty}
FlatCells == {Txt(<<"<", "1", "0", "1", ">">>), Txt(<<"<", "1", ">", "0", "1">>), Number(101)}

TemplateRow(block, flat) ==
    [KeyField |-> Number(500001), Block |-> block, Flat |-> flat,
     SquareFeet |-> Number(1200), Category |-> Txt(<<"S", "t", "a", "n", "d", "a", "r", "d">>), Name |-> Txt(<<"R">>),
     CurrentDue |-> Number(0), AccountNo |-> Empty, Amount |-> Number(5),
     InvoiceDate |-> Empty, Comment |-> Txt(<<"o", "l", "d">>)]

TemplateRows == {TemplateRow(b, f) : b \in BlockCells, f \in FlatCells}

AddaTemplates ==
    {[readable |-> TRUE, ncols |-> 11, rows |-> rows] :
        rows \in UNION {[1..n -> TemplateRows] : n \in 0..MaxTemplateRows}}
    \cup {[readable |-> TRUE, ncols |-> 10, rows |-> <<>>],
          [readable |-> FALSE, ncols |-> 0, rows |-> <<>>]}

AllocationRows ==
    [Apartment : {<<"A", "1", "0", "1">>, <<"A", "<", "1", "1", "0", "1">>}, To_Be_Billed : {0, 250}]

\* extract_final_allocation_data returns at least one row
FinalAllocations ==
    UNION {[1..n -> AllocationRows] : n \in 1..MaxAllocationRows}

Dates == {<<"2", "0", "2", "4", "-", "0", "8", "-", "0", "5">>}

InitAdda ==
    /\ pc = "extracted allocation"
    /\ adda_template_file \in AddaTemplates
    /\ final_allocation \in FinalAllocations
    /\ adda_template = None
    /\ workflow_status = <<>>
    /\ workflow_result = None
    /\ objects = <<>>
    /\ updated_ref = None
    /\ PatchIdle
    /\ LoadIdle
    /\ AnalyzeIdle
    /\ SheetIdle

GenerateAddaTemplate ==
    /\ pc = "extracted allocation"
    /\ \E today \in Dates :
          adda_template' = [today |-> today] @@
              _generate_adda_template_from_file(final_allocation, adda_template_file, today)
    /\ pc' = "mapped"
    /\ UNCHANGED <<adda_template_file, final_allocation, workflow_status,
                   workflow_result, objects, updated_ref>>
    /\ UNCHANGED <<df_last, df_this, results, file, processing_order,
                   next_sheet, tried, flat_data, sheetVars, patchVars>>

NextAdda == GenerateAddaTemplate

SpecAdda == InitAdda /\ [][NextAdda]_vars

\* ------------------------------------------------------------------------
\* execute_billing_workflow: the six steps of one run on a manager that
\* keeps its fields from run to run
\* ------------------------------------------------------------------------

\* a byte stream that is no workbook: every reader raises on it
Garbage == [garbage |-> TRUE]

\* extract_final_allocation_data: the rows from the first row whose column
\* 1 is a serial number down to the first that is none (Apartment and
\* To_Be_Billed of each; the other columns are read the same way)
extract_final_allocation_data(sheets) ==
    IF sheets = None \/ DOMAIN sheets = {} \/ "Final allocation monthly" \notin DOMAIN sheets
    THEN [raised |-> TRUE, rows |-> <<>>]
    ELSE LET df == sheets["Final allocation monthly"]
             IsSerial(i) == notna(iloc(df, i, 1)) /\ IsDigits(value_str(iloc(df, i, 1)))
             serials == {i \in 0..(df.nrows - 1) : IsSerial(i)}
             data_start == FirstIndex(serials)
             last == CHOOSE k \in data_start..(df.nrows - 1) :
                         /\ \A i \in data_start..k : IsSerial(i)
                         /\ k + 1 <= df.nrows - 1 => ~IsSerial(k + 1)
             billed(i) == iloc(df, i, 13)
         IN  IF (df.nrows > 0 /\ df.ncols < 2) \/ serials = {} \/ df.ncols < 14
             THEN [raised |-> TRUE, rows |-> <<>>]
             ELSE IF \E i \in data_start..last :
                         billed(i).t = "text" /\ ~IsDigits(str_strip(billed(i).s))
             THEN [raised |-> TRUE, rows |-> <<>>]
             ELSE [raised |-> FALSE,
                   rows |-> [k \in 1..(last - data_start + 1) |->
                       LET i == data_start + k - 1
                       IN  [Apartment |-> IF notna(iloc(df, i, 3))
                                          THEN value_str(iloc(df, i, 3)) ELSE <<>>,
                            To_Be_Billed |-> IF billed(i).t = "number" THEN billed(i).n
                                             ELSE IF billed(i).t = "text"
                                             THEN digits_int(str_strip(billed(i).s))
                                             ELSE 0]]]

\* self.workflow_status[step] = flag
set_status(status, step, flag) ==
    [k \in DOMAIN status \cup {step} |-> IF k = step THEN flag ELSE status[k]]

\* the fields of the manager and of its processor
Manager(wegot, template_file, template, adda_file, updated, allocation, status) ==
    [wegot_data |-> wegot, billing_template_file |-> template_file,
     billing_template |-> template, adda_template_file |-> adda_file,
     updated_billing_template |-> updated, final_allocation |-> allocation,
     workflow_status |-> status]

\* the dictionary of the except clause, and the fields as they are then
WorkflowError(self, message) ==
    [self |-> self,
     result |-> [status |-> "error", error_message |-> message,
                 workflow_status |-> self.workflow_status]]

\* one run: the fields afterwards and the returned dictionary (the frames
\* of the template, the updated sheets and the extracted rows are each
\* computed once and named)
execute_billing_workflow(self, wegot_file, billing_file, adda_file, month_name, bwssb, tanker, today) ==
    LET s1 == [self EXCEPT !.workflow_status = set_status(@, "wegot_loaded", FALSE)]
        t1 == [s1 EXCEPT !.wegot_data = wegot_file,
                         !.workflow_status = set_status(@, "wegot_loaded", TRUE)]
        s2 == [t1 EXCEPT !.workflow_status = set_status(@, "template_loaded", FALSE),
                         !.billing_template_file = billing_file]
    IN  IF wegot_file = Garbage THEN WorkflowError(s1, "Error loading WeGot data")
        ELSE IF billing_file = Garbage
        THEN WorkflowError(s2, "Error loading billing template")
        ELSE CHOOSE run \in {
            LET t2 == [s2 EXCEPT !.billing_template = template,
                                 !.workflow_status = set_status(@, "template_loaded", TRUE)]
                t3 == [t2 EXCEPT !.adda_template_file = adda_file,
                                 !.workflow_status =
                                     set_status(@, "adda_template_loaded", TRUE)]
                s4 == [t3 EXCEPT !.workflow_status = set_status(@, "billing_updated", FALSE)]
            IN  CHOOSE after_update \in {
                IF u.raised THEN WorkflowError(s4, "Error updating billing template")
                ELSE LET t4 == [s4 EXCEPT !.updated_billing_template = u.sheets,
                                          !.workflow_status =
                                              set_status(@, "billing_updated", TRUE)]
                         s5 == [t4 EXCEPT !.workflow_status =
                                              set_status(@, "allocation_extracted", FALSE)]
                     IN  CHOOSE after_extract \in {
                         IF e.raised
                         THEN WorkflowError(s5, "Final allocation data not found")
                         ELSE LET t5 == [s5 EXCEPT !.final_allocation = e.rows,
                                                   !.workflow_status =
                                                       set_status(@, "allocation_extracted", TRUE)]
                                  s6 == [t5 EXCEPT !.workflow_status =
                                                       set_status(@, "adda_generated", FALSE)]
                                  t6 == [s6 EXCEPT !.workflow_status =
                                                       set_status(@, "adda_generated", TRUE)]
                              IN  IF _generate_adda_template_from_file(
                                         e.rows, adda_file, today).raised
                                  THEN WorkflowError(s6, "Error generating Adda template")
                                  ELSE [self |-> t6,
                                        result |-> [status |-> "success",
                                                    error_message |-> "",
                                                    workflow_status |-> t6.workflow_status]]
                         : e \in {extract_final_allocation_data(template)}} : TRUE
                : u \in {_update_billing_template_with_wegot_data(
                             wegot_file, template, month_name, bwssb, tanker)}} : TRUE
            : template \in {load_billing_template(billing_file)}} : TRUE

\* the 'Final allocation monthly' sheet: a header row and one flat
FinalSheet ==
    Worksheet((<<1, 2>> :> Txt(<<"S", ".", "N", "o">>)) @@ (<<1, 4>> :> Txt(<<"A", "p", "a", "r", "t", "m", "e", "n", "t">>))
              @@ (<<1, 14>> :> Txt(<<"T", "o", " ", "b", "e", " ", "b", "i", "l", "l", "e", "d">>))
              @@ (<<2, 2>> :> Number(1)) @@ (<<2, 4>> :> Txt(<<"A", "1", "0", "1">>))
              @@ (<<2, 14>> :> Number(250)),
              {})

\* the billing templates of the runs: one that every step accepts, one the
\* update step raises on, one without the final allocation sheet
BillingFiles ==
    LET With(allocation_ws, final) ==
            LET base == Workbook(TRUE, PriorSheetDefault, TemplateInput, allocation_ws,
                                 SummarySheet)
            IN  IF final THEN [base EXCEPT !.sheets =
                                  @ @@ ("Final allocation monthly" :> FinalSheet)]
                ELSE base
    IN  {With(AllocationFilled, TRUE), With(AllocationSmall, TRUE),
         With(AllocationFilled, FALSE), Garbage}

WegotFiles == {WegotTableDefault, Garbage}

AddaFiles ==
    {[readable |-> TRUE, ncols |-> 11,
      rows |-> <<TemplateRow(Txt(<<"<", "Z", ">">>), Txt(<<"<", "1", "0", "1", ">">>)),
                 TemplateRow(Txt(<<"<", "A", ">">>), Txt(<<"<", "1", "0", "1", ">">>))>>],
     [readable |-> FALSE, ncols |-> 0, rows |-> <<>>]}

InitWorkflow ==
    /\ pc = "manager"
    /\ FlowIdle
    /\ PatchIdle
    /\ LoadIdle
    /\ AnalyzeIdle
    /\ SheetIdle

ExecuteWorkflow ==
    /\ pc \in {"manager", "run returned"}
    /\ \E wegot_file \in WegotFiles, billing_file \in BillingFiles, adda_file \in AddaFiles,
          m \in Months, b \in BwssbReadings \ {0}, t \in TankerReadings, today \in Dates :
          \E run \in {execute_billing_workflow(
                         Manager(wegot_data, billing_template_file, billing_template,
                                 adda_template_file, updated_billing_template,
                                 final_allocation, workflow_status),
                         wegot_file, billing_file, adda_file, m, b, t, today)} :
              /\ wegot_data' = run.self.wegot_data
              /\ billing_template_file' = run.self.billing_template_file
              /\ billing_template' = run.self.billing_template
              /\ adda_template_file' = run.self.adda_template_file
              /\ updated_billing_template' = run.self.updated_billing_template
              /\ final_allocation' = run.self.final_allocation
              /\ workflow_status' = run.self.workflow_status
              /\ workflow_result' = run.result
              /\ selected' = [month |-> m, bwssb_reading |-> b, tanker_reading |-> t]
    /\ pc' = "run returned"
    /\ UNCHANGED <<uploaded, download, adda_template, objects, updated_ref>>
    /\ UNCHANGED <<df_last, df_this, results, file, processing_order,
                   next_sheet, tried, flat_data, sheetVars>>

NextWorkflow == ExecuteWorkflow

SpecWorkflow == InitWorkflow /\ [][NextWorkflow]_vars

\* ------------------------------------------------------------------------
\* The objects behind the references: the uploaded file, the dict of
\* sheets and its frames; dict.copy(), DataFrame.copy() and the writes
\* through iloc of _update_billing_template_with_wegot_data, and the
\* seek/read/seek of get_updated_billing_template_download
\* ------------------------------------------------------------------------

\* calls of the update in one run
MaxCalls == 3

\* an object is named by its kind, its sheet and the call that made it
\* (call 0: load_billing_template)
Ref(kind, name, call) == [kind |-> kind, name |-> name, call |-> call]

file_ref == Ref("file", "", 0)
template_ref == Ref("dict", "", 0)

\* the sheets a dict holds, by value
deref(heap, d) == [name \in DOMAIN heap[d].items |-> heap[heap[d].items[name]].df]

\* the call that is made next: one dict is made by every call
next_call(heap) == Cardinality({id \in DOMAIN heap : id.kind = "dict"})

\* the uploaded file and what load_billing_template made of it
loaded_objects(billing_file, at_start) ==
    LET sheets == load_billing_template(billing_file)
        ids == {file_ref, template_ref} \cup {Ref("frame", name, 0) : name \in DOMAIN sheets}
    IN  [id \in ids |->
            IF id.kind = "file" THEN [content |-> billing_file, at_start |-> at_start]
            ELSE IF id.kind = "dict"
            THEN [items |-> [name \in DOMAIN sheets |-> Ref("frame", name, 0)]]
            ELSE [df |-> sheets[id.name]]]

\* billing_sheets.copy(): a new dict that refers to the same frames
dict_copy(heap, d, new) == (new :> [items |-> heap[d].items]) @@ heap

\* updated_sheets[name] = frame
dict_set(heap, d, name, frame) == [heap EXCEPT ![d].items[name] = frame]

\* a copy that is the frame itself
frame_copy_SameFrame(heap, f, new) == [heap |-> heap, ref |-> f]

\* DataFrame.copy(): a new frame with the same cells
frame_copy(heap, f, new) == [heap |-> (new :> [df |-> heap[f].df]) @@ heap, ref |-> new]

\* updated_sheets['WeGot report'] = wegot_data.copy()
replace_wegot_frame(heap, d, wegot, call) ==
    IF "WeGot report" \notin DOMAIN heap[d].items THEN heap
    ELSE dict_set((Ref("frame", "WeGot report", call) :> [df |-> wegot]) @@ heap,
                  d, "WeGot report", Ref("frame", "WeGot report", call))

\* the Input step: the copy is written in place, then stored in the dict;
\* an IndexError comes before the first write
update_input_frame(heap, d, month_name, bwssb, tanker, call) ==
    IF "Input" \notin DOMAIN heap[d].items THEN [raised |-> FALSE, heap |-> heap]
    ELSE LET c == frame_copy(heap, heap[d].items["Input"], Ref("frame", "Input", call))
             input == update_input_sheet(c.heap[c.ref].df, month_name, bwssb, tanker)
         IN  IF input.raised THEN [raised |-> TRUE, heap |-> c.heap]
             ELSE [raised |-> FALSE,
                   heap |-> dict_set([c.heap EXCEPT ![c.ref].df = input.sheet],
                                     d, "Input", c.ref)]

\* the Allocation step: column C of the month's row is written, then
\* column D; a frame with columns up to C keeps the first write
update_allocation_frame(heap, d, month_name, bwssb, tanker, call) ==
    IF "Allocation" \notin DOMAIN heap[d].items THEN [raised |-> FALSE, heap |-> heap]
    ELSE LET c == frame_copy(heap, heap[d].items["Allocation"],
                             Ref("frame", "Allocation", call))
             before == c.heap[c.ref].df
             allocation == update_allocation_sheet(before, month_name, bwssb, tanker)
             row_num == month_to_row[month_name]
         IN  IF ~allocation.raised
             THEN [raised |-> FALSE,
                   heap |-> dict_set([c.heap EXCEPT ![c.ref].df = allocation.sheet],
                                     d, "Allocation", c.ref)]
             ELSE IF row_num < before.nrows /\ before.ncols = 3
             THEN [raised |-> TRUE,
                   heap |-> [c.heap EXCEPT ![c.ref].df =
                                set_iloc(before, row_num, 2, Number(bwssb))]]
             ELSE [raised |-> TRUE, heap |-> c.heap]

\* _update_billing_template_with_wegot_data on the objects: the dict that
\* is returned, or raised, and the objects afterwards
update_objects(heap, wegot, billing_sheets, month_name, bwssb, tanker) ==
    LET call == next_call(heap)
        updated_sheets == Ref("dict", "", call)
        h1 == replace_wegot_frame(dict_copy(heap, billing_sheets, updated_sheets),
                                  updated_sheets, wegot, call)
        input == update_input_frame(h1, updated_sheets, month_name, bwssb, tanker, call)
        allocation == update_allocation_frame(input.heap, updated_sheets,
                                              month_name, bwssb, tanker, call)
    IN  IF input.raised THEN [raised |-> TRUE, heap |-> input.heap, ref |-> None]
        ELSE IF allocation.raised
        THEN [raised |-> TRUE, heap |-> allocation.heap, ref |-> None]
        ELSE [raised |-> FALSE, heap |-> allocation.heap, ref |-> updated_sheets]

\* original_content.seek(0); original_content.read(); original_content.seek(0)
read_from_start(heap) == [heap EXCEPT ![file_ref].at_start = TRUE]

\* 'Allocation' sheets on which a call for one month returns and a call
\* for another raises, before the first write or after it
AllocationShort ==
    Worksheet((<<5, 2>> :> Txt(<<"J", "a", "n">>)) @@ (<<5, 3>> :> Number(10)) @@ (<<6, 4>> :> Number(20)),
              {})
AllocationNarrow ==
    Worksheet((<<5, 2>> :> Txt(<<"J", "a", "n">>)) @@ (<<15, 2>> :> Txt(<<"A", "u", "g">>)) @@ (<<15, 3>> :> Number(30)),
              {})

\* the files are loaded: billing_template and billing_template_file hold
\* the sheets and the bytes as they are at that moment, objects holds the
\* objects that the references of the program point to
InitObjects ==
    /\ pc = "loaded objects"
    /\ uploaded \in [wegot_file : {WegotTableDefault},
                     billing_file : {Workbook(ok, PriorSheetDefault, input_ws, allocation_ws,
                                              SummarySheet) :
                                        ok \in BOOLEAN,
                                        input_ws \in {TemplateInput, None},
                                        allocation_ws \in {AllocationFilled, AllocationShort,
                                                           AllocationNarrow, AllocationSmall,
                                                           None}}]
    /\ wegot_data = uploaded.wegot_file
    /\ billing_template_file = uploaded.billing_file
    /\ billing_template = load_billing_template(uploaded.billing_file)
    /\ updated_billing_template = None
    /\ selected = None
    /\ download = None
    /\ \E at_start \in BOOLEAN : objects = loaded_objects(uploaded.billing_file, at_start)
    /\ updated_ref = None
    /\ adda_template_file = None
    /\ final_allocation = None
    /\ adda_template = None
    /\ workflow_status = <<>>
    /\ workflow_result = None
    /\ LoadIdle
    /\ AnalyzeIdle
    /\ SheetIdle

\* the mappings the caller can pass: the loaded one, the last returned one
PassedMappings == {template_ref} \cup ({updated_ref} \ {None})

\* a call of the update returns: the caller stores the returned dict;
\* updated_billing_template holds its sheets as they are at that moment
UpdateObjects ==
    /\ pc \in {"loaded objects", "updated objects", "update raised", "downloaded objects"}
    /\ next_call(objects) <= MaxCalls
    /\ \E d \in PassedMappings, m \in Months, b \in BwssbReadings \ {0}, t \in TankerReadings :
          \E u \in {update_objects(objects, wegot_data, d, m, b, t)} :
              /\ ~u.raised
              /\ objects' = u.heap
              /\ updated_ref' = u.ref
              /\ updated_billing_template' = deref(u.heap, u.ref)
              /\ selected' = [month |-> m, bwssb_reading |-> b, tanker_reading |-> t]
    /\ pc' = "updated objects"
    /\ UNCHANGED <<uploaded, wegot_data, billing_template_file, billing_template, download>>
    /\ UNCHANGED <<adda_template_file, final_allocation, adda_template,
                   workflow_status, workflow_result>>
    /\ UNCHANGED <<df_last, df_this, results, file, processing_order,
                   next_sheet, tried, flat_data, sheetVars>>

\* a call of the update raises: the objects it made stay behind, the
\* caller stores nothing
UpdateObjectsRaises ==
    /\ pc \in {"loaded objects", "updated objects", "update raised", "downloaded objects"}
    /\ next_call(objects) <= MaxCalls
    /\ \E d \in PassedMappings, m \in Months, b \in BwssbReadings \ {0}, t \in TankerReadings :
          \E u \in {update_objects(objects, wegot_data, d, m, b, t)} :
              /\ u.raised
              /\ objects' = u.heap
              /\ selected' = [month |-> m, bwssb_reading |-> b, tanker_reading |-> t]
    /\ pc' = "update raised"
    /\ UNCHANGED <<uploaded, wegot_data, billing_template_file, billing_template,
                   updated_billing_template, download, updated_ref>>
    /\ UNCHANGED <<adda_template_file, final_allocation, adda_template,
                   workflow_status, workflow_result>>
    /\ UNCHANGED <<df_last, df_this, results, file, processing_order,
                   next_sheet, tried, flat_data, sheetVars>>

\* a call of the download: the file is read from its start, the stream is
\* built from the bytes read and from the sheets updated_ref points to
DownloadObjects ==
    /\ pc \in {"loaded objects", "updated objects", "update raised", "downloaded objects"}
    /\ download' = get_updated_billing_template_download(
                       objects[file_ref].content, wegot_data,
                       IF updated_ref = None THEN None ELSE deref(objects, updated_ref))
    /\ objects' = read_from_start(objects)
    /\ pc' = "downloaded objects"
    /\ UNCHANGED <<uploaded, wegot_data, billing_template_file, billing_template,
                   updated_billing_template, selected, updated_ref>>
    /\ UNCHANGED <<adda_template_file, final_allocation, adda_template,
                   workflow_status, workflow_result>>
    /\ UNCHANGED <<df_last, df_this, results, file, processing_order,
                   next_sheet, tried, flat_data, sheetVars>>

NextObjects == UpdateObjects \/ UpdateObjectsRaises \/ DownloadObjects

SpecObjects == InitObjects /\ [][NextObjects]_vars

\* ------------------------------------------------------------------------
\* Properties of the analysis
\* ------------------------------------------------------------------------

Analyzed == pc = "analyzed"
Merged == results.merged_data
Categories == results.categories
Ids(df) == {df[i].Flat : i \in DOMAIN df}
RecordsOf(f) == {i \in DOMAIN Merged : Merged[i].Flat = f}

\* C1: every identifier present in either input table appears on exactly one
\* row of the comparison set, and no other identifier appears.
C1_EveryIdentifierOnce ==
    Analyzed =>
        /\ \A f \in Ids(df_last) \cup Ids(df_this) : Cardinality(RecordsOf(f)) = 1
        /\ \A i \in DOMAIN Merged : Merged[i].Flat \in Ids(df_last) \cup Ids(df_this)

\* C2: the percentage change is (current - prior) / prior * 100 when prior > 0,
\* 100 when prior = 0 and current > 0, 0 when both are 0; (0,150) gives 100,
\* (0,0) gives 0, (100,50) gives -50; the value is always a finite number
\* (the zero divisor never reaches the result).
C2_PercentageChange ==
    Analyzed =>
        \A i \in DOMAIN Merged :
            LET prior == Merged[i].Amount_last_month
                current == Merged[i].Amount_this_month
                p == Merged[i].Change_Percent
            IN  /\ IsFinite(p)
                /\ prior > 0 => p.num * prior = (current - prior) * 100 * p.den
                /\ (prior = 0 /\ current > 0) => p.num = 100 * p.den
                /\ (prior = 0 /\ current = 0) => p.num = 0
                /\ (prior = 0 /\ current = 150) => p.num = 100 * p.den
                /\ (prior = 100 /\ current = 50) => p.num = (-50) * p.den

C2_ZeroPriorReached ==
    /\ Analyzed
    /\ \E i \in DOMAIN Merged :
          /\ Merged[i].Amount_last_month = 0
          /\ Merged[i].Amount_this_month = 150
          /\ Merged[i].Change_Percent.num = 100 * Merged[i].Change_Percent.den
    /\ \E i \in DOMAIN Merged :
          /\ Merged[i].Amount_last_month = 0
          /\ Merged[i].Amount_this_month = 0

\* C3: an identifier only in the current table has prior amount 0, one only
\* in the prior table has current amount 0, and the absolute change of every
\* record is current minus prior.
C3_AbsentSideIsZero ==
    Analyzed =>
        /\ \A f \in Ids(df_this) \ Ids(df_last) :
              /\ RecordsOf(f) # {}
              /\ \A i \in RecordsOf(f) : Merged[i].Amount_last_month = 0
        /\ \A f \in Ids(df_last) \ Ids(df_this) :
              /\ RecordsOf(f) # {}
              /\ \A i \in RecordsOf(f) : Merged[i].Amount_this_month = 0
        /\ \A i \in DOMAIN Merged :
              Merged[i].Change_Amount =
                  Merged[i].Amount_this_month - Merged[i].Amount_last_month

C3_BothOneSidedReached ==
    /\ Analyzed
    /\ \E i \in DOMAIN Merged :
          /\ Merged[i].Flat \notin Ids(df_last)
          /\ Merged[i].Amount_this_month > 0
    /\ \E i \in DOMAIN Merged :
          /\ Merged[i].Flat \notin Ids(df_this)
          /\ Merged[i].Amount_last_month > 0
    /\ \E i \in DOMAIN Merged :
          /\ Merged[i].Amount_last_month > 0
          /\ Merged[i].Amount_this_month > Merged[i].Amount_last_month

\* the percentage of a record exceeds n / is below n, from its two amounts
PercentAbove(r, n) ==
    IF r.Amount_last_month > 0
    THEN (r.Amount_this_month - r.Amount_last_month) * 100 > n * r.Amount_last_month
    ELSE (IF r.Amount_this_month > 0 THEN 100 ELSE 0) > n
PercentBelow(r, n) ==
    IF r.Amount_last_month > 0
    THEN (r.Amount_this_month - r.Amount_last_month) * 100 < n * r.Amount_last_month
    ELSE (IF r.Amount_this_month > 0 THEN 100 ELSE 0) < n

\* the rows of a category are exactly the rows of the merged frame (counted
\* with repetition) that satisfy the category's predicate
HoldsExactly(cat, want) ==
    /\ Range(cat) = {Merged[i] : i \in want}
    /\ \A r \in Range(cat) :
          Cardinality({k \in DOMAIN cat : cat[k] = r}) =
          Cardinality({i \in want : Merged[i] = r})

\* C4: with thresholds 200 and 25, a record is in major_increases iff
\* (change > 200 or percent > 25) and change > 0; in major_decreases iff
\* (change < -200 or percent < -25) and change < 0; in zero_consumption iff
\* current = 0 and prior > 0; in new_consumers iff prior = 0 and current > 0;
\* each category is taken over the full record set.
C4_CategoryPredicates ==
    Analyzed =>
        /\ HoldsExactly(Categories.major_increases,
              {i \in DOMAIN Merged :
                  /\ \/ Merged[i].Amount_this_month - Merged[i].Amount_last_month > 200
                     \/ PercentAbove(Merged[i], 25)
                  /\ Merged[i].Amount_this_month - Merged[i].Amount_last_month > 0})
        /\ HoldsExactly(Categories.major_decreases,
              {i \in DOMAIN Merged :
                  /\ \/ Merged[i].Amount_this_month - Merged[i].Amount_last_month < -200
                     \/ PercentBelow(Merged[i], -25)
                  /\ Merged[i].Amount_this_month - Merged[i].Amount_last_month < 0})
        /\ HoldsExactly(Categories.zero_consumption,
              {i \in DOMAIN Merged :
                  Merged[i].Amount_this_month = 0 /\ Merged[i].Amount_last_month > 0})
        /\ HoldsExactly(Categories.new_consumers,
              {i \in DOMAIN Merged :
                  Merged[i].Amount_last_month = 0 /\ Merged[i].Amount_this_month > 0})

\* an increase of more than 200 that is not more than 25 percent (1000 to
\* 1250) is in major_increases
C4_ThresholdCasesReached ==
    /\ Analyzed
    /\ \E i \in DOMAIN Merged :
          /\ Merged[i].Amount_last_month = 1000
          /\ Merged[i].Amount_this_month = 1250
          /\ Merged[i] \in Range(Categories.major_increases)

\* the k-th smallest current amount among the rows idx of the merged frame
KthCurrent(idx, k) ==
    CHOOSE x \in {Merged[i].Amount_this_month : i \in idx} :
        /\ Cardinality({i \in idx : Merged[i].Amount_this_month < x}) < k
        /\ k <= Cardinality({i \in idx : Merged[i].Amount_this_month <= x})

\* ten times the (tenths * 10)-th percentile of the current amounts of the
\* rows idx (idx not empty): linear interpolation between closest ranks
Percentile10(idx, tenths) ==
    LET n == Cardinality(idx)
        pos == (n - 1) * tenths
        lo == (pos \div 10) + 1
        below == KthCurrent(idx, lo)
        above == IF lo < n THEN KthCurrent(idx, lo + 1) ELSE below
    IN  10 * below + (pos % 10) * (above - below)

ActiveRecords == {i \in DOMAIN Merged : Merged[i].Amount_this_month > 0}

\* C5: high_consumers is exactly the records whose current amount is at least
\* the 90th percentile of all current amounts; low_consumers is exactly the
\* records with current > 0 whose current amount is at most the 10th
\* percentile of the current amounts of the records with current > 0; the
\* low_consumers category is always present, and empty when no record has
\* current > 0.
C5_PercentileCategories ==
    Analyzed =>
        LET p90 == Percentile10(DOMAIN Merged, 9)
            p10 == Percentile10(ActiveRecords, 1)
        IN  /\ HoldsExactly(Categories.high_consumers,
                  {i \in DOMAIN Merged : 10 * Merged[i].Amount_this_month >= p90})
            /\ HoldsExactly(Categories.low_consumers,
                  {i \in ActiveRecords : 10 * Merged[i].Amount_this_month <= p10})
            /\ "low_consumers" \in DOMAIN Categories
            /\ ActiveRecords = {} => Categories.low_consumers = <<>>

\* three or more records, both percentiles fall between two different
\* amounts, and neither category holds every record
C5_InterpolatedReached ==
    /\ Analyzed
    /\ Len(Merged) >= 3
    /\ Cardinality(ActiveRecords) >= 2
    /\ LET p90 == Percentile10(DOMAIN Merged, 9)
           p10 == Percentile10(ActiveRecords, 1)
       IN  \A i \in DOMAIN Merged :
              /\ 10 * Merged[i].Amount_this_month # p90
              /\ 10 * Merged[i].Amount_this_month # p10
    /\ Categories.high_consumers # <<>>
    /\ Len(Categories.high_consumers) < Len(Merged)
    /\ Categories.low_consumers # <<>>
    /\ Len(Categories.low_consumers) < Cardinality(ActiveRecords)

Descending(cat, col) == \A k \in 1..(Len(cat) - 1) : cat[k][col] >= cat[k + 1][col]
Ascending(cat, col) == \A k \in 1..(Len(cat) - 1) : cat[k][col] <= cat[k + 1][col]

\* C6: major_increases is ordered by change descending, major_decreases by
\* change ascending, zero_consumption by prior amount descending,
\* new_consumers and high_consumers by current amount descending,
\* low_consumers by current amount ascending.
C6_CategoryOrder ==
    Analyzed =>
        /\ Descending(Categories.major_increases, "Change_Amount")
        /\ Ascending(Categories.major_decreases, "Change_Amount")
        /\ Descending(Categories.zero_consumption, "Amount_last_month")
        /\ Descending(Categories.new_consumers, "Amount_this_month")
        /\ Descending(Categories.high_consumers, "Amount_this_month")
        /\ Ascending(Categories.low_consumers, "Amount_this_month")

\* two increases that the merged frame holds smaller first, two decreases
\* that it holds smaller decrease first
C6_ReorderedReached ==
    /\ Analyzed
    /\ \E i, j \in DOMAIN Merged :
          /\ i < j
          /\ Merged[i] \in Range(Categories.major_increases)
          /\ Merged[j] \in Range(Categories.major_increases)
          /\ Merged[i].Change_Amount < Merged[j].Change_Amount
    /\ \E i, j \in DOMAIN Merged :
          /\ i < j
          /\ Merged[i] \in Range(Categories.major_decreases)
          /\ Merged[j] \in Range(Categories.major_decreases)
          /\ Merged[i].Change_Amount > Merged[j].Change_Amount

ScenarioLoaded ==
    /\ df_last = <<[Flat |-> "A101", Amount |-> 300], [Flat |-> "A102", Amount |-> 0]>>
    /\ df_this = <<[Flat |-> "A101", Amount |-> 550], [Flat |-> "A103", Amount |-> 120]>>

\* the categories that hold a record
CategoriesOf(r) == {c \in DOMAIN Categories : r \in Range(Categories[c])}

\* C7: for prior {A101: 300, A102: 0} and current {A101: 550, A103: 120} the
\* analysis yields exactly three records: A101 (300, 550, change 250, percent
\* 83.3 to one decimal) in major_increases; A102 (0, 0, change 0) in no
\* category; A103 (0, 120, change 120, percent 100) in new_consumers.
C7_EndToEndScenario ==
    (Analyzed /\ ScenarioLoaded) =>
        /\ Len(Merged) = 3
        /\ \E a, b, c \in DOMAIN Merged :
              /\ {a, b, c} = DOMAIN Merged
              /\ Merged[a].Flat = "A101"
              /\ Merged[a].Amount_last_month = 300
              /\ Merged[a].Amount_this_month = 550
              /\ Merged[a].Change_Amount = 250
              /\ 1665 * Merged[a].Change_Percent.den <= 20 * Merged[a].Change_Percent.num
              /\ 20 * Merged[a].Change_Percent.num < 1667 * Merged[a].Change_Percent.den
              /\ "major_increases" \in CategoriesOf(Merged[a])
              /\ Merged[b].Flat = "A102"
              /\ Merged[b].Amount_last_month = 0
              /\ Merged[b].Amount_this_month = 0
              /\ Merged[b].Change_Amount = 0
              /\ CategoriesOf(Merged[b]) = {}
              /\ Merged[c].Flat = "A103"
              /\ Merged[c].Amount_last_month = 0
              /\ Merged[c].Amount_this_month = 120
              /\ Merged[c].Change_Amount = 120
              /\ Merged[c].Change_Percent.num = 100 * Merged[c].Change_Percent.den
              /\ "new_consumers" \in CategoriesOf(Merged[c])

C7_ScenarioAnalyzed ==
    /\ Analyzed
    /\ ScenarioLoaded
    /\ Len(Merged) = 3

\* ------------------------------------------------------------------------
\* Properties of load_flat_data
\* ------------------------------------------------------------------------

Returned == pc = "returned"

\* the frame each entry of the processing order yields
Yield(i) == _process_sheet(file, processing_order[i])

\* C8: the snapshot table built from the winning sheet holds each identifier
\* at most once, and for an identifier on several rows of the sheet it holds
\* the amount of the last of those rows.
C8_LastOccurrenceWins ==
    (Returned /\ ~flat_data.is_none) =>
        LET table == flat_data.rows
            extracted == _process_sheet(file, tried[Len(tried)]).rows
            last_row(id) == CHOOSE i \in DOMAIN extracted :
                               /\ extracted[i].Flat = id
                               /\ \A k \in DOMAIN extracted :
                                     extracted[k].Flat = id => k <= i
        IN  /\ \A i, k \in DOMAIN table : i # k => table[i].Flat # table[k].Flat
            /\ \A i \in DOMAIN table :
                  table[i].Amount = extracted[last_row(table[i].Flat)].Amount

\* C9: load_flat_data returns the table of the first sheet, in processing
\* order, that yields a table with at least one row; a sheet yielding a table
\* with zero rows does not win, and no sheet after the winner is processed.
C9_FirstNonEmptyTableWins ==
    (Returned /\ file.readable) =>
        LET winners == {i \in DOMAIN processing_order :
                           ~Yield(i).is_none /\ Yield(i).rows # <<>>}
            first == CHOOSE i \in winners : \A k \in winners : i <= k
        IN  winners # {} =>
                /\ flat_data = Yield(first)
                /\ tried = SubSeq(processing_order, 1, first)

\* the first sheet, in workbook order, whose name matches a marker whatever
\* the case of either
MarkerMatch(sheet_names, marker) ==
    LET hits == {i \in DOMAIN sheet_names :
                    str_contains(str_lower(sheet_names[i]), str_lower(marker))}
    IN  IF hits = {} THEN <<>>
        ELSE <<sheet_names[CHOOSE i \in hits : \A k \in hits : i <= k]>>

\* the order the markers and the deny-list describe
MarkerOrder(sheet_names) ==
    LET P[k \in 0..Len(priority_sheets)] ==
            IF k = 0 THEN <<>>
            ELSE P[k - 1] \o MarkerMatch(sheet_names, priority_sheets[k])
        preferred == P[Len(priority_sheets)]
    IN  preferred \o
        SelectSeq(sheet_names,
                  LAMBDA n : /\ n \notin Range(preferred)
                             /\ \A k \in DOMAIN exclude_keywords :
                                   ~str_contains(str_lower(n), exclude_keywords[k]))

\* a sequence without the repetitions of an element it already holds
FirstOccurrences(seq) ==
    LET F[i \in 0..Len(seq)] ==
            IF i = 0 THEN <<>>
            ELSE IF seq[i] \in Range(F[i - 1]) THEN F[i - 1]
            ELSE Append(F[i - 1], seq[i])
    IN  F[Len(seq)]

\* C10: the processing order is, first, for each preferred-table marker in
\* listed order the sheet matching that marker (a sheet named exactly like a
\* marker is placed by its own marker), then in workbook order every other
\* sheet whose name holds no deny-list marker; a denied sheet matching no
\* marker is never in the order.  Stated on the sheets in order of first
\* try, so that a sheet tried twice counts once.
C10_ProcessingOrder ==
    (pc \in {"loop", "returned"} /\ file.readable) =>
        FirstOccurrences(processing_order) =
            FirstOccurrences(MarkerOrder(sheet_names_of(file)))

\* ------------------------------------------------------------------------
\* Properties of the header scans
\* ------------------------------------------------------------------------

Located == pc = "located"

\* the identifier keywords and the amount keywords of each scan
IdentifierKeywords ==
    [allocation |-> apartment_keywords,
     billing |-> <<<<"b", "l", "o", "c", "k">>, <<"f", "l", "a", "t">>>>,
     multi_sheet |-> multi_sheet_apartment_keywords]
AmountKeywords ==
    [allocation |-> <<<<"t", "o", "t", "a", "l">>>>,
     billing |-> billing_amount_header_keywords,
     multi_sheet |-> multi_sheet_billing_keywords]
ScanBound ==
    [allocation |-> AllocationScanRows,
     billing |-> BillingScanRows,
     multi_sheet |-> MultiSheetScanRows]

\* row i (from 0) of g holds an identifier keyword and an amount keyword
QualifiesAsHeader(g, i) ==
    LET text == row_text(g, i + 1)
    IN  /\ any_keyword_in(IdentifierKeywords[locator], text)
        /\ any_keyword_in(AmountKeywords[locator], text)

QualifyingRows(g) == {i \in 0..(Len(g) - 1) : QualifiesAsHeader(g, i)}

\* C11: the scan returns the smallest index, below the scan bound and the
\* row count, of a row whose lower-cased joined text contains an identifier
\* keyword and an amount keyword, and None when there is no such row (so
\* never an index at or past the bound).
C11_HeaderLocation ==
    Located =>
        found_row = FirstRow({i \in QualifyingRows(grid) :
                                 i < Min(ScanBound[locator], Len(grid))})

\* the scan that ran, applied to another grid
LocatorOn(g) ==
    IF locator = "allocation" THEN _find_allocation_header(g)
    ELSE IF locator = "billing" THEN _find_billing_header(g)
    ELSE load_multi_sheet_excel_header_row(g)

\* the grids that keep row h (from 0) of g in place and permute the others
Reorderings(g, h) ==
    {[k \in 1..Len(g) |-> g[p[k]]] :
        p \in {q \in [1..Len(g) -> 1..Len(g)] :
                  /\ q[h + 1] = h + 1
                  /\ \A a, b \in 1..Len(g) : a # b => q[a] # q[b]}}

\* C12: when exactly one row of the grid qualifies as a header, every
\* permutation of the other rows that keeps that row at its index leaves
\* the index returned by the scan unchanged.
C12_ReorderingKeepsHeader ==
    (Located /\ Cardinality(QualifyingRows(grid)) = 1) =>
        LET h == CHOOSE i \in QualifyingRows(grid) : TRUE
        IN  \A g \in Reorderings(grid, h) : LocatorOn(g) = found_row

\* one qualifying row, found, with other rows that a permutation moves
C12_ReorderedGridReached ==
    /\ Located
    /\ Cardinality(QualifyingRows(grid)) = 1
    /\ found_row \in QualifyingRows(grid)
    /\ \E g \in Reorderings(grid, found_row) : g # grid

\* ------------------------------------------------------------------------
\* Properties of the column scans
\* ------------------------------------------------------------------------

Assigned == pc = "assigned"

AreaWord == <<"s", "q", "u", "a", "r", "e">>

\* the positions, in column order, of the labels eligible for a role
LabelsWith(labels, keywords) ==
    {k \in DOMAIN labels : any_keyword_in(keywords, str_lower(labels[k]))}
AmountLabelsWith(labels, keywords) ==
    {k \in LabelsWith(labels, keywords) : ~str_contains(str_lower(labels[k]), AreaWord)}

FirstLabel(eligible) ==
    IF eligible = {} THEN NoCol
    ELSE CHOOSE k \in eligible : \A j \in eligible : k <= j

\* C13: each role (identifier, grouping key, amount) gets, independently of
\* the other roles, the first label in column order whose lower-cased text
\* contains a keyword of the role, an amount label that contains the area
\* word being not eligible; no later label is chosen while an earlier one
\* is eligible.
C13_ColumnRoles ==
    Assigned =>
        LET labels == column_labels(grid, found_row)
        IN  IF locator = "billing"
            THEN /\ found_cols.block_col = FirstLabel(LabelsWith(labels, <<<<"b", "l", "o", "c", "k">>>>))
                 /\ found_cols.flat_col = FirstLabel(LabelsWith(labels, <<<<"f", "l", "a", "t">>>>))
                 /\ found_cols.amount_col =
                        FirstLabel(AmountLabelsWith(labels, billing_amount_column_keywords))
            ELSE /\ found_cols.apartment_col = FirstLabel(LabelsWith(labels, apartment_keywords))
                 /\ found_cols.total_col = FirstLabel(AmountLabelsWith(labels, <<<<"t", "o", "t", "a", "l">>>>))

\* ------------------------------------------------------------------------
\* Properties of the extracted snapshot table
\* ------------------------------------------------------------------------

Extracted == pc = "extracted" /\ ~flat_data.is_none

\* text without its leading and trailing whitespace and bracket characters
StripEnds(text) ==
    LET junk == Whitespace \cup {"<", ">"}
        keep == {i \in DOMAIN text : text[i] \notin junk}
    IN  IF keep = {} THEN <<>>
        ELSE SubSeq(text, CHOOSE i \in keep : \A k \in keep : i <= k,
                          CHOOSE i \in keep : \A k \in keep : i >= k)

normalize(raw_group, raw_subid) == StripEnds(raw_group) \o StripEnds(raw_subid)

\* the text of a cell as the sheet holds it: a blank cell is the empty text
RawText(rows, i, j) == IF rows[i][j].t = "empty" THEN <<>> ELSE cell_str(rows, i, j)

\* the canonical identifier of data row i of the sheet that was extracted
CanonicalId(rows, i) ==
    IF locator = "billing"
    THEN normalize(RawText(rows, i, found_cols.block_col),
                   RawText(rows, i, found_cols.flat_col))
    ELSE StripEnds(RawText(rows, i, found_cols.apartment_col))

TableIds == {flat_data.rows[k].Flat : k \in DOMAIN flat_data.rows}

\* C14: every identifier of the table is the canonical identifier of a
\* data row: group and sub-id each without leading / trailing whitespace
\* and brackets, joined with no separator, or the single identifier column
\* trimmed and bracket-stripped; (' <A> ', ' <101> ') gives 'A101', and a
\* row ('', '101') gives no row of the table.
C14_CanonicalIdentifier ==
    Extracted =>
        LET rows == data_rows(grid, found_row)
        IN  /\ TableIds \subseteq {CanonicalId(rows, i) : i \in DOMAIN rows}
            /\ locator = "billing" =>
                   /\ (\E i \in DOMAIN rows : /\ rows[i][1] = Txt(<<" ", "<", "A", ">", " ">>)
                                               /\ rows[i][2] = Txt(<<" ", "<", "1", "0", "1", ">", " ">>))
                        => <<"A", "1", "0", "1">> \in TableIds
                   /\ (\A i \in DOMAIN rows : rows[i][1] = Empty)
                        => TableIds = {}

\* an identifier the entity filter must reject
IsRejectedId(id) ==
    \/ id = <<>>
    \/ id = <<"n", "a", "n">>
    \/ id = <<"N", "o", "n", "e">>
    \/ any_keyword_in(aggregate_markers, str_lower(id))

\* C15: no row of the table has an identifier that, normalized, is empty,
\* 'nan' or 'None', or contains 'total', 'sum' or 'grand' in any case, for
\* the group + sub-id extraction and for the single-column extraction,
\* whichever part of the identifier the marker comes from.
C15_NoAggregateRows ==
    Extracted => \A id \in TableIds : ~IsRejectedId(StripEnds(id))

\* ------------------------------------------------------------------------
\* Properties of the updated billing file
\* ------------------------------------------------------------------------

Downloaded == pc = "downloaded"
Primary == Downloaded /\ download.outcome = "primary"
Original == billing_template_file.sheets
Output == download.sheets

FormulaCells(ws) == {p \in DOMAIN ws.cells : ws.cells[p].t = "formula"}

\* C16: every cell that held a formula in the original workbook holds the
\* same formula in the workbook that is returned: neither the clearing nor
\* the writing of the table overwrites a formula, whatever the table's size.
C16_FormulasKept ==
    Primary =>
        \A name \in DOMAIN Original :
            \A p \in FormulaCells(Original[name]) :
                /\ p \in DOMAIN Output[name].cells
                /\ Output[name].cells[p] = Original[name].cells[p]

TableRowsWritten == dataframe_to_rows(wegot_data)
InTable(p) == p[1] \in 1..Len(TableRowsWritten) /\ p[2] \in 1..Len(TableRowsWritten[p[1]])

\* the data area that is cleared, by the size of the prior sheet
InDataArea(p) ==
    /\ p[1] < Min(ClearRows, max_row(Original["WeGot report"]) + ClearRowMargin)
    /\ p[2] < Min(ClearColumns, max_column(Original["WeGot report"]) + ClearColumnMargin)

InputCell(i) ==
    IF <<i + 1, 3>> \in DOMAIN Output["Input"].cells
    THEN Output["Input"].cells[<<i + 1, 3>>] ELSE Empty

\* C19: after a run with month m and readings b and t, the returned
\* workbook carries m, b and t in its 'Input' sheet, each in the row found
\* by looking its label up in the label column.
C19_ParametersInInputSheet ==
    (/\ Downloaded
     /\ download.outcome # "error"
     /\ updated_billing_template # None
     /\ "Input" \in DOMAIN Original) =>
        LET df == billing_template["Input"]
        IN  /\ month_row(df) # NoRow => InputCell(month_row(df)) = Txt(selected.month)
            /\ bwssb_row(df) # NoRow => InputCell(bwssb_row(df)) = Number(selected.bwssb_reading)
            /\ tanker_row(df) # NoRow => InputCell(tanker_row(df)) = Number(selected.tanker_reading)

\* the first row whose label, lower-cased, is one of the labels exactly
ExactRow(df, labels) ==
    FirstIndex({i \in 0..(df.nrows - 1) :
        notna(iloc(df, i, 1)) /\ label_lower(df, i) \in labels})

WriteAt(df, i, value) == IF i = NoRow THEN df ELSE set_iloc(df, i, 2, value)

\* C20: each scalar update is written at column offset 2 of the row whose
\* label equals the update's label exactly, ignoring case; a row whose
\* label only contains that text is no match, and with no match the update
\* leaves the sheet as it is.
C20_ExactLabelMatch ==
    (pc = "updated" /\ "Input" \in DOMAIN billing_template) =>
        LET df == billing_template["Input"]
        IN  updated_billing_template["Input"] =
                WriteAt(WriteAt(WriteAt(df,
                    ExactRow(df, {<<"m", "o", "n", "t", "h">>}), Txt(selected.month)),
                    ExactRow(df, {<<"c", "a", "u", "v", "e", "r", "y">>, <<"b", "w", "s", "s", "b">>, <<"b", "e", "s", "c", "o", "m">>}),
                        Number(selected.bwssb_reading)),
                    ExactRow(df, {<<"t", "a", "n", "k", "e", "r">>}), Number(selected.tanker_reading))

\* ------------------------------------------------------------------------
\* Properties of the error outcomes
\* ------------------------------------------------------------------------

\* the same call on a readable workbook that already holds these sheets,
\* with no table to write: the formula-preserving path hands them back
PrimaryLookalike ==
    get_updated_billing_template_download(
        [loadable |-> TRUE, sheets |-> download.sheets], None, None)

\* C21: when the formula-preserving path fails and the rebuild from the
\* frames produces the output, what the caller receives is flagged as a
\* fallback: it differs from everything a primary-path call can hand back.
C21_FallbackFlagged ==
    (Downloaded /\ download.outcome = "fallback") =>
        returned_to_caller(download) # returned_to_caller(PrimaryLookalike)

\* C22: a byte stream that is no workbook gives a fatal error outcome, which
\* differs from the 'no table found' outcome (None) of load_flat_data.
C22_UnreadableIsFatal ==
    (pc = "returned" /\ ~file.readable) => flat_data # NoFrame

\* ------------------------------------------------------------------------
\* Properties of the sheet selection and of the categories
\* ------------------------------------------------------------------------

NamesAllocation(sheet_name) == str_contains(str_lower(sheet_name), <<"a", "l", "l", "o", "c", "a", "t", "i", "o", "n">>)

\* the branch of _process_sheet that calls _process_billing_sheet
TakesBillingBranch(sheet_name) ==
    /\ read_excel(file, sheet_name) # <<>>
    /\ ~NamesAllocation(sheet_name)
    /\ str_contains(str_lower(sheet_name), <<"d", "u", "e", "s", "_", "t", "m", "p", "t">>)

\* C29: load_flat_data returns a table only from a sheet whose lower-cased
\* name contains 'allocation' (none from a workbook without such a sheet),
\* and no sheet it processes takes the Block+Flat extraction of
\* _process_billing_sheet.
C29_OnlyAllocationSheets ==
    /\ (pc = "returned" /\ ~flat_data.is_none) =>
          /\ tried # <<>>
          /\ NamesAllocation(tried[Len(tried)])
          /\ flat_data = _process_allocation_sheet(read_excel(file, tried[Len(tried)]))
    /\ \A i \in DOMAIN tried : ~TakesBillingBranch(tried[i])

\* a workbook without an allocation sheet, whose dues sheet and one more
\* sheet hold a titled table, has returned None
C29_NoAllocationSheetReached ==
    /\ pc = "returned"
    /\ flat_data.is_none
    /\ file.readable
    /\ Len(file.sheets) = 2
    /\ \A i \in DOMAIN file.sheets :
          /\ ~NamesAllocation(file.sheets[i].name)
          /\ file.sheets[i].grid = GridTitled
    /\ \E i \in DOMAIN file.sheets : file.sheets[i].name = <<"D", "u", "e", "s", "_", "t", "m", "p", "t">>
    /\ tried # <<>>

\* C30: every record of new_consumers is in major_increases, every record of
\* zero_consumption is in major_decreases, and no record is in both
\* major_increases and major_decreases.
C30_CategoryInclusions ==
    Analyzed =>
        /\ Range(Categories.new_consumers) \subseteq Range(Categories.major_increases)
        /\ Range(Categories.zero_consumption) \subseteq Range(Categories.major_decreases)
        /\ Range(Categories.major_increases) \cap Range(Categories.major_decreases) = {}

\* a new consumer and a flat gone to zero in one comparison
C30_BothKindsReached ==
    /\ Analyzed
    /\ Categories.new_consumers # <<>>
    /\ Categories.zero_consumption # <<>>

\* ------------------------------------------------------------------------
\* Properties of the month's readings in the Allocation sheet
\* ------------------------------------------------------------------------

\* the spreadsheet row (from 1) of the frame row the in-memory update
\* writes for the month: the frames are read with header=None
InMemoryRow(month_name) == month_to_row[month_name] + 1

\* C28: after the in-memory update for month m with readings b and t and
\* the download, the Allocation sheet of the returned workbook holds b and
\* t in columns C and D of the spreadsheet row the in-memory update wrote
\* for m, and is otherwise as it was.
C28_SameAllocationRow ==
    (Primary /\ updated_billing_template # None /\ "Allocation" \in DOMAIN Original) =>
        Output["Allocation"] =
            write_cell(write_cell(Original["Allocation"],
                           InMemoryRow(selected.month), 3, Number(selected.bwssb_reading)),
                       InMemoryRow(selected.month), 4, Number(selected.tanker_reading))

\* ------------------------------------------------------------------------
\* Properties of the filled Adda template
\* ------------------------------------------------------------------------

Mapped == pc = "mapped" /\ ~adda_template.raised
TemplateIn == adda_template_file.rows
TemplateOut == adda_template.rows
HasTextPair(row) == row.Block.t = "text" /\ row.Flat.t = "text"

\* C25: every data row of the template, the first one included, whose
\* normalized group+sub-id identifier is among the computed amounts has its
\* amount set to that identifier's amount and its account number, invoice
\* date and comment set to their constants.
C25_EveryMatchedRowFilled ==
    Mapped =>
        \A i \in DOMAIN TemplateIn :
            LET row == TemplateIn[i]
                found == IF HasTextPair(row)
                         THEN matching_apt(final_allocation, normalize(row.Block.s, row.Flat.s))
                         ELSE <<>>
            IN  found # <<>> =>
                    /\ TemplateOut[i].Amount = Number(found[1].To_Be_Billed)
                    /\ TemplateOut[i].AccountNo = Number(301004)
                    /\ TemplateOut[i].InvoiceDate = Txt(adda_template.today)
                    /\ TemplateOut[i].Comment = Txt(<<"W", "a", "t", "e", "r", " ", "c", "o", "s", "t", " ", "a", "t", " ", "a", "c", "t", "u", "a", "l", "s">>)

UntouchedColumns ==
    {"KeyField", "Block", "Flat", "SquareFeet", "Category", "Name", "CurrentDue"}

\* the template is a workbook of eleven columns whose rows carry a group
\* and a sub-id text
WellFormedTemplate ==
    /\ adda_template_file.readable
    /\ adda_template_file.ncols = 11
    /\ \A i \in DOMAIN TemplateIn : HasTextPair(TemplateIn[i])

IsMatched(row) ==
    matching_apt(final_allocation, apt_code(row.Block.s, row.Flat.s)) # <<>>

C27_SameNormalizer ==
    pc = "mapped" =>
        \A i \in DOMAIN TemplateIn :
            HasTextPair(TemplateIn[i]) =>
                apt_code(TemplateIn[i].Block.s, TemplateIn[i].Flat.s) =
                    clean_part(TemplateIn[i].Block.s) \o clean_part(TemplateIn[i].Flat.s)

\* ------------------------------------------------------------------------
\* Properties of the workflow status
\* ------------------------------------------------------------------------

Steps ==
    <<"wegot_loaded", "template_loaded", "adda_template_loaded", "billing_updated",
      "allocation_extracted", "adda_generated">>

\* the step whose exception the error message reports
FailedStep ==
    IF workflow_result.error_message = "Error loading WeGot data" THEN 1
    ELSE IF workflow_result.error_message = "Error loading billing template" THEN 2
    ELSE IF workflow_result.error_message = "Error updating billing template" THEN 4
    ELSE IF workflow_result.error_message = "Final allocation data not found" THEN 5
    ELSE 6

FlagIs(k, flag) ==
    /\ Steps[k] \in DOMAIN workflow_result.workflow_status
    /\ workflow_result.workflow_status[Steps[k]] = flag

\* C23: after any sequence of runs on one manager, a run that returns
\* 'error' reports a workflow_status in which the failing step's flag is
\* False, every earlier step's flag is True and no later step's flag is
\* True; a run that returns 'success' reports all six flags True.
C23_StatusNamesFailingStage ==
    pc = "run returned" =>
        /\ workflow_result.status = "error" =>
              /\ FlagIs(FailedStep, FALSE)
              /\ \A j \in 1..(FailedStep - 1) : FlagIs(j, TRUE)
              /\ \A j \in (FailedStep + 1)..Len(Steps) : ~FlagIs(j, TRUE)
        /\ workflow_result.status = "success" =>
              \A j \in 1..Len(Steps) : FlagIs(j, TRUE)

\* ------------------------------------------------------------------------
\* Properties of the objects the caller holds
\* ------------------------------------------------------------------------

HoldsObjects == pc \in {"loaded objects", "updated objects", "update raised",
                        "downloaded objects"}

\* a call raised after it had written into its copy of a frame
RaisedAfterWrite ==
    /\ pc = "update raised"
    /\ \E id \in DOMAIN objects :
          /\ id.kind = "frame"
          /\ id.call = next_call(objects) - 1
          /\ id.name \in {"Input", "Allocation"}
          /\ objects[id].df # billing_template[id.name]

\* C24: after any sequence of calls of the update and of the download,
\* returning or raising part-way, the dict that was passed in has the keys
\* and every sheet has the cells it had before, for the loaded dict and
\* for the last returned one, and the stored file has the bytes it had
C24_CallerStateUntouched ==
    HoldsObjects =>
        /\ deref(objects, template_ref) = billing_template
        /\ updated_ref # None => deref(objects, updated_ref) = updated_billing_template
        /\ objects[file_ref].content = billing_template_file

\* a call has raised after a write into its copy, an earlier call had
\* returned a dict with changed sheets
C24_RaisedAfterWriteReached ==
    /\ RaisedAfterWrite
    /\ updated_ref # None
    /\ updated_billing_template # billing_template

====
